---- MODULE Spec2Model ----
(***************************************************************************)
(* Datetime model of actions.life: the UTC-instant schema of               *)
(* IMPLEMENTATION_GUIDE.md (toUTCTimestamp, fromUTCTimestamp, Task.create, *)
(* Task.update, migrateTasksToUTC, shouldNotifyNow).                       *)
(*                                                                         *)
(* Representation.  A string of the program is modelled by the tuple of    *)
(* the numbers it spells:                                                  *)
(*   'yyyy-MM-dd'                -> <<y, m, d>>                            *)
(*   'HH:mm'                     -> <<h, mi>>                              *)
(*   'yyyy-MM-ddTHH:mm:ss.000Z'  -> <<y, m, d, h, mi, s>>                  *)
(*   ''                          -> << >>                                  *)
(* A tuple of another length is a string that is not in the format.        *)
(* An instant (luxon's ts) is a number of seconds since 1970-01-01T00:00Z; *)
(* milliseconds are not modelled.  A Firestore document and a set of       *)
(* keyValueChanges are functions from field names to values: a field that  *)
(* is undefined is a field outside the DOMAIN.                             *)
(***************************************************************************)
EXTENDS Integers, Sequences, FiniteSets, TLC

Empty == << >>

(* JavaScript truthiness of a string: '' and undefined are falsy. *)
Has(obj, k) == k \in DOMAIN obj
Truthy(obj, k) == Has(obj, k) /\ obj[k] # Empty

-----------------------------------------------------------------------------
(* Civil calendar arithmetic, as luxon's objToLocalTS / tsToObj do it      *)
(* through Date.UTC and the Date getters.                                  *)

IsLeapYear(y) == (y % 4 = 0) /\ ((y % 100 # 0) \/ (y % 400 = 0))

DaysInMonth(y, m) ==
    IF m = 2 THEN (IF IsLeapYear(y) THEN 29 ELSE 28)
    ELSE IF m \in {4, 6, 9, 11} THEN 30 ELSE 31

(* Days from 1970-01-01 to the civil date y-m-d. *)
DaysFromCivil(y, m, d) ==
    LET yy  == IF m <= 2 THEN y - 1 ELSE y
        era == yy \div 400
        yoe == yy - era * 400
        mp  == IF m > 2 THEN m - 3 ELSE m + 9
        doy == (153 * mp + 2) \div 5 + d - 1
        doe == yoe * 365 + yoe \div 4 - yoe \div 100 + doy
    IN  era * 146097 + doe - 719468

(* The civil date <<y, m, d>> of a day number. *)
CivilFromDays(z) ==
    LET zz  == z + 719468
        era == zz \div 146097
        doe == zz - era * 146097
        yoe == (doe - doe \div 1460 + doe \div 36524 - doe \div 146096) \div 365
        doy == doe - (365 * yoe + yoe \div 4 - yoe \div 100)
        mp  == (5 * doy + 2) \div 153
        d   == doy - (153 * mp + 2) \div 5 + 1
        m   == IF mp < 10 THEN mp + 3 ELSE mp - 9
        y   == yoe + era * 400 + (IF m <= 2 THEN 1 ELSE 0)
    IN  <<y, m, d>>

(* objToLocalTS: the fields read as if they were UTC (Date.UTC rolls an   *)
(* hour of 24 over into the next day).                                     *)
ObjToLocalTS(y, m, d, h, mi, s) ==
    DaysFromCivil(y, m, d) * 86400 + h * 3600 + mi * 60 + s

(* tsToObj: the civil fields <<y, m, d, h, mi, s>> of a local timestamp. *)
TsToObj(lts) ==
    LET days == lts \div 86400
        sod  == lts % 86400
        c    == CivilFromDays(days)
    IN  <<c[1], c[2], c[3], sod \div 3600, (sod % 3600) \div 60, sod % 60>>

-----------------------------------------------------------------------------
(* State.                                                                  *)

VARIABLES
    store,       \* the Firestore documents users/{uid}/tasks/{id}
    tasksCache,  \* the client's tasksCache store, fed by the snapshot listener
    lastWrite,   \* the last Task.update call: its keyValueChanges, what it wrote, and
                 \* whether the currentTask it read was the stored document
    mig,         \* migrateTasksToUTC: its position, snapshot, counters and batches
    call,        \* a call of a pure function: its arguments and results
    now,         \* the clock, Settings.now(), in seconds
    systemZone   \* the zone of the runtime: Intl.DateTimeFormat().resolvedOptions().timeZone

vars == <<store, tasksCache, lastWrite, mig, call, now, systemZone>>

-----------------------------------------------------------------------------
(* The time-zone database the runtime supplies, for the year 2025.         *)

NewYork    == "America/New_York"
Tokyo      == "Asia/Tokyo"
LosAngeles == "America/Los_Angeles"
UTCZone    == "utc"
BadZone    == "Mars/Olympus_Mons"

KnownZones == {NewYork, Tokyo, LosAngeles, UTCZone}

IsValidZone(zone) == zone \in KnownZones

(* IANAZone.offset(ts), in minutes.  US daylight time 2025 runs from       *)
(* 9 March 02:00 local standard time to 2 November 02:00 local daylight    *)
(* time.                                                                   *)
ZoneOffset(zone, ts) ==
    CASE zone = NewYork ->
            IF /\ ts >= ObjToLocalTS(2025, 3, 9, 7, 0, 0)
               /\ ts <  ObjToLocalTS(2025, 11, 2, 6, 0, 0)
            THEN -240 ELSE -300
      [] zone = LosAngeles ->
            IF /\ ts >= ObjToLocalTS(2025, 3, 9, 10, 0, 0)
               /\ ts <  ObjToLocalTS(2025, 11, 2, 9, 0, 0)
            THEN -420 ELSE -480
      [] zone = Tokyo -> 540
      [] OTHER -> 0

Min(a, b) == IF a < b THEN a ELSE b
Max(a, b) == IF a > b THEN a ELSE b

(* fixOffset as it would be with one correction of the guess and no       *)
(* handling of a local time that no instant reads as.                      *)
FixOffsetOneCorrection(localTS, o, zone) ==
    LET utcGuess == localTS - o * 60
        o2       == ZoneOffset(zone, utcGuess)
    IN  IF o = o2 THEN utcGuess ELSE utcGuess - (o2 - o) * 60

(* luxon fixOffset: find the UTC instant of a local timestamp, starting    *)
(* from the provisional offset o.                                          *)
FixOffset(localTS, o, zone) ==
    LET utcGuess  == localTS - o * 60
        o2        == ZoneOffset(zone, utcGuess)
        utcGuess2 == utcGuess - (o2 - o) * 60
        o3        == ZoneOffset(zone, utcGuess2)
    IN  IF o = o2 THEN utcGuess
        ELSE IF o2 = o3 THEN utcGuess2
        ELSE localTS - Min(o2, o3) * 60

-----------------------------------------------------------------------------
(* luxon DateTime, as far as the program uses it.                          *)

(* JavaScript undefined, where a zone is expected. *)
Undefined == "undefined"

(* NaN, what arithmetic on undefined yields: a value apart from every      *)
(* number of minutes that occurs.                                          *)
NaN == -2147483647

(* What toFormat returns on an invalid DateTime ('Invalid DateTime'): a    *)
(* string that is in none of the formats.                                  *)
InvalidDateTimeStr == <<0>>

(* normalizeZone(zone, Settings.defaultZone): the zone luxon uses when the *)
(* zone option is undefined is the system zone.                            *)
NormalizeZone(zone) == IF zone = Undefined THEN systemZone ELSE zone

(* The field of a document where a zone is expected. *)
ZoneField(obj) == IF Has(obj, "timeZone") THEN obj["timeZone"] ELSE Undefined

(* The token parser of 'yyyy-MM-dd' and luxon's hasInvalidGregorianData. *)
ParsesAsDate(d) ==
    /\ Len(d) = 3
    /\ d[2] \in 1..12
    /\ d[3] \in 1..DaysInMonth(d[1], d[2])

(* The token parser of 'HH:mm' and luxon's hasInvalidTimeData: an hour of *)
(* 24 is accepted with minute 0.                                           *)
ParsesAsTime(t) ==
    /\ Len(t) = 2
    /\ \/ t[1] \in 0..23 /\ t[2] \in 0..59
       \/ t[1] = 24 /\ t[2] = 0

(* DateTime.fromFormat(`${date} ${time}`, 'yyyy-MM-dd HH:mm', { zone }).isValid *)
FromFormatIsValid(date, time, zone) ==
    /\ IsValidZone(NormalizeZone(zone))
    /\ ParsesAsDate(date)
    /\ ParsesAsTime(time)

(* fromFormat as it would be if the offset of the zone at the current     *)
(* time were taken for the offset at the local time.                       *)
FromFormatTSCurrentOffset(date, time, zone, tsNow) ==
    ObjToLocalTS(date[1], date[2], date[3], time[1], time[2], 0)
        - ZoneOffset(NormalizeZone(zone), tsNow) * 60

(* The ts of DateTime.fromFormat(...) when it is valid: fromObject reads   *)
(* the provisional offset from the zone's offset at the current time now.  *)
FromFormatTS(date, time, zone, tsNow) ==
    LET z == NormalizeZone(zone)
    IN  FixOffset(ObjToLocalTS(date[1], date[2], date[3], time[1], time[2], 0),
                  ZoneOffset(z, tsNow), z)

(* dt.toUTC().toISO() *)
ToISO(ts) == TsToObj(ts)

(* DateTime.fromISO(iso, { zone: 'utc' }).isValid and its ts *)
FromISOIsValid(iso) ==
    /\ Len(iso) = 6
    /\ ParsesAsDate(<<iso[1], iso[2], iso[3]>>)
    /\ ParsesAsTime(<<iso[4], iso[5]>>)
    /\ iso[6] \in 0..59

FromISOTS(iso) == ObjToLocalTS(iso[1], iso[2], iso[3], iso[4], iso[5], iso[6])

(* dt.setZone(zone).toFormat('yyyy-MM-dd') and .toFormat('HH:mm') *)
LocalObj(ts, zone) == TsToObj(ts + ZoneOffset(zone, ts) * 60)

FormatDate(ts, zone) == LET o == LocalObj(ts, zone) IN <<o[1], o[2], o[3]>>
FormatTime(ts, zone) == LET o == LocalObj(ts, zone) IN <<o[4], o[5]>>

(* dt.startOf('minute') in the UTC zone *)
StartOfMinute(ts) == ts - (ts % 60)

(* hasSame as it would be if it held for any two instants less than a      *)
(* minute apart.                                                           *)
HasSameMinuteLessThanAMinuteApart(a, b) == a - b < 60 /\ b - a < 60

(* a.hasSame(b, 'minute'), both in the UTC zone:                           *)
(* startOf('minute') <= b <= endOf('minute')                               *)
HasSameMinute(a, b) == StartOfMinute(a) <= b /\ b <= StartOfMinute(a) + 59

-----------------------------------------------------------------------------
(* The helper functions of Task.js.                                        *)

(* toUTCTimestamp as it would be if a date without a time were read as    *)
(* the start of that day.                                                  *)
toUTCTimestampDateOnlyIsMidnight(dateISO, time, timezone, tsNow) ==
    IF dateISO = Empty THEN Empty
    ELSE LET t == IF time = Empty THEN <<0, 0>> ELSE time
         IN  IF ~FromFormatIsValid(dateISO, t, timezone) THEN Empty
             ELSE ToISO(FromFormatTS(dateISO, t, timezone, tsNow))

toUTCTimestamp(dateISO, time, timezone, tsNow) ==
    IF dateISO = Empty \/ time = Empty THEN Empty
    ELSE IF ~FromFormatIsValid(dateISO, time, timezone) THEN Empty
    ELSE ToISO(FromFormatTS(dateISO, time, timezone, tsNow))

(* fromUTCTimestamp as it would be without setZone(timezone): the date and *)
(* time of the instant in UTC.                                             *)
fromUTCTimestampWithoutSetZone(timestampUTC, timezone) ==
    IF timestampUTC = Empty THEN [dateISO |-> Empty, time |-> Empty]
    ELSE IF ~FromISOIsValid(timestampUTC)
         THEN [dateISO |-> InvalidDateTimeStr, time |-> InvalidDateTimeStr]
    ELSE [dateISO |-> FormatDate(FromISOTS(timestampUTC), UTCZone),
          time    |-> FormatTime(FromISOTS(timestampUTC), UTCZone)]

fromUTCTimestamp(timestampUTC, timezone) ==
    IF timestampUTC = Empty THEN [dateISO |-> Empty, time |-> Empty]
    ELSE IF ~FromISOIsValid(timestampUTC) \/ ~IsValidZone(NormalizeZone(timezone))
         THEN [dateISO |-> InvalidDateTimeStr, time |-> InvalidDateTimeStr]
    ELSE [dateISO |-> FormatDate(FromISOTS(timestampUTC), NormalizeZone(timezone)),
          time    |-> FormatTime(FromISOTS(timestampUTC), NormalizeZone(timezone))]

-----------------------------------------------------------------------------
(* Documents and writes.                                                   *)

(* The tasks the user creates and edits. *)
TaskIdSeq == <<"t1">>
TaskIds == {TaskIdSeq[i] : i \in 1..Len(TaskIdSeq)}

(* The documents of the tasks collection, in the order a snapshot lists    *)
(* them.                                                                   *)
DocIdSeq == <<"t1", "t2", "t3">>
DocIds == {DocIdSeq[i] : i \in 1..Len(DocIdSeq)}

NoDocs == [i \in {} |-> Empty]
NoWrite == [op |-> "none", n |-> 0]

(* Task.update is called at most MaxUpdates times. *)
MaxUpdates == 3

MigIdle == [pc |-> "idle"]
NoCall == [pc |-> "none"]

(* { ...doc, ...changes }: what batch.update(doc, changes) leaves stored *)
Merge(doc, changes) ==
    [k \in DOMAIN doc \cup DOMAIN changes |->
        IF k \in DOMAIN changes THEN changes[k] ELSE doc[k]]

(* a ?? b on the field k of two objects, for a string field: undefined     *)
(* behaves as '' in every place the result is used.                        *)
Coalesce(changes, cur, k) ==
    IF Has(changes, k) THEN changes[k]
    ELSE IF Has(cur, k) THEN cur[k] ELSE Empty

(* changes.timeZone ?? cur.timeZone *)
CoalesceZone(changes, cur) ==
    IF Has(changes, "timeZone") THEN changes["timeZone"] ELSE ZoneField(cur)

-----------------------------------------------------------------------------
(* Task.schema                                                             *)

(* The refinement of startDateISO: '' (the default) or a date in           *)
(* yyyy-MM-dd format.                                                      *)
isValidISODate(s) == s = Empty \/ ParsesAsDate(s)

SchemaDefaults ==
    [startTimestampUTC |-> Empty, startTime |-> Empty, startDateISO |-> Empty,
     timeZone |-> systemZone, duration |-> 30]

(* Task.schema.parse(obj) and Task.schema.partial().parse(obj) throw when *)
(* a field that is given fails its refinement, or when the duration that   *)
(* is given is not a number (z.number() refuses NaN).                      *)
SchemaThrows(obj) ==
    \/ Has(obj, "startDateISO") /\ ~isValidISODate(obj["startDateISO"])
    \/ Has(obj, "duration") /\ obj["duration"] = NaN

(* Task.schema.parse(obj): the defaults fill the fields that are missing *)
SchemaParse(obj) == Merge(SchemaDefaults, obj)

-----------------------------------------------------------------------------
(* Task.create                                                             *)

(* validatedTask after the two dual-write steps of Task.create *)
CreatedTask(newTaskObj, tsNow) ==
    LET v0 == SchemaParse(newTaskObj)
        v1 == IF /\ v0["startDateISO"] # Empty
                 /\ v0["startTime"] # Empty
                 /\ v0["startTimestampUTC"] = Empty
              THEN [v0 EXCEPT !["startTimestampUTC"] =
                        toUTCTimestamp(v0["startDateISO"], v0["startTime"],
                                       v0["timeZone"], tsNow)]
              ELSE v0
        back == fromUTCTimestamp(v1["startTimestampUTC"], v1["timeZone"])
    IN  IF v1["startTimestampUTC"] # Empty /\ v1["startDateISO"] = Empty
        THEN [v1 EXCEPT !["startDateISO"] = back.dateISO, !["startTime"] = back.time]
        ELSE v1

-----------------------------------------------------------------------------
(* Task.update                                                             *)

NeedsTimestampUpdate(changes) ==
    \/ Has(changes, "startDateISO")
    \/ Has(changes, "startTime")
    \/ Has(changes, "timeZone")

(* Task.update as it was before the dual write: only the edited fields    *)
(* are written.                                                            *)
ValidatedChangesEditedFieldsOnly(kvc, cur, tsNow) == kvc

(* Task.update as it would be without the else branch that clears the      *)
(* instant of an incomplete moment.                                        *)
ValidatedChangesNoClear(kvc, cur, tsNow) ==
    LET dateISO  == Coalesce(kvc, cur, "startDateISO")
        time     == Coalesce(kvc, cur, "startTime")
        timezone == CoalesceZone(kvc, cur)
        back     == fromUTCTimestamp(kvc["startTimestampUTC"], ZoneField(cur))
    IN  IF NeedsTimestampUpdate(kvc)
        THEN IF dateISO # Empty /\ time # Empty
             THEN Merge(kvc, [startTimestampUTC |->
                                toUTCTimestamp(dateISO, time, timezone, tsNow)])
             ELSE kvc
        ELSE IF Truthy(kvc, "startTimestampUTC")
        THEN Merge(kvc, [startDateISO |-> back.dateISO, startTime |-> back.time])
        ELSE kvc

(* validatedChanges as handed to batch.update: the datetime part of       *)
(* Task.update, on the keyValueChanges kvc and currentTask = cur.          *)
ValidatedChanges(kvc, cur, tsNow) ==
    LET dateISO  == Coalesce(kvc, cur, "startDateISO")
        time     == Coalesce(kvc, cur, "startTime")
        timezone == CoalesceZone(kvc, cur)
        back     == fromUTCTimestamp(kvc["startTimestampUTC"], ZoneField(cur))
    IN  IF NeedsTimestampUpdate(kvc)
        THEN Merge(kvc, [startTimestampUTC |->
                IF dateISO # Empty /\ time # Empty
                THEN toUTCTimestamp(dateISO, time, timezone, tsNow)
                ELSE Empty])
        ELSE IF Truthy(kvc, "startTimestampUTC")
        THEN Merge(kvc, [startDateISO |-> back.dateISO, startTime |-> back.time])
        ELSE kvc

-----------------------------------------------------------------------------
(* migrateTasksToUTC                                                       *)

(* The Firestore limit the script commits a batch at. *)
BatchLimit == 500

DefaultMigrationZone == LosAngeles

(* The zone as it would be read without the fallback: a missing zone is   *)
(* the zone of the system.                                                 *)
MigrationZoneWithoutFallback(task) == ZoneField(task)

(* task.timeZone || 'America/Los_Angeles' *)
MigrationZone(task) ==
    IF Has(task, "timeZone") /\ task["timeZone"] # "" /\ task["timeZone"] # Undefined
    THEN task["timeZone"] ELSE DefaultMigrationZone

MigrationStart ==
    [migrated |-> 0, skipped |-> 0, errors |-> << >>,
     batches |-> << >>, currentBatch |-> NoDocs, batchCount |-> 0]

(* The update of one document put into the batch, and the batch committed *)
(* when it reaches the limit.                                              *)
AddToBatch(acc, id, ts) ==
    IF acc.batchCount + 1 = BatchLimit
    THEN [acc EXCEPT !.migrated = @ + 1,
                     !.batches = Append(@, [i \in DOMAIN acc.currentBatch \cup {id} |->
                                              IF i = id THEN [startTimestampUTC |-> ts]
                                              ELSE acc.currentBatch[i]]),
                     !.currentBatch = NoDocs,
                     !.batchCount = 0]
    ELSE [acc EXCEPT !.migrated = @ + 1,
                     !.currentBatch = [i \in DOMAIN @ \cup {id} |->
                                          IF i = id THEN [startTimestampUTC |-> ts]
                                          ELSE @[i]],
                     !.batchCount = @ + 1]

(* The loop body as it would be without the isValid check: the document    *)
(* is written and counted whatever fromFormat made of it.                  *)
MigrateStepWithoutIsValid(acc, id, task, tsNow) ==
    IF Truthy(task, "startTimestampUTC")
    THEN [acc EXCEPT !.skipped = @ + 1]
    ELSE IF ~Truthy(task, "startDateISO") \/ ~Truthy(task, "startTime")
    THEN [acc EXCEPT !.skipped = @ + 1]
    ELSE AddToBatch(acc, id, toUTCTimestamp(task["startDateISO"], task["startTime"],
                                            MigrationZone(task), tsNow))

(* The loop body as it would be without the skip of a document that        *)
(* already has its instant.                                                *)
MigrateStepWithoutSkipOfMigrated(acc, id, task, tsNow) ==
    IF ~Truthy(task, "startDateISO") \/ ~Truthy(task, "startTime")
    THEN [acc EXCEPT !.skipped = @ + 1]
    ELSE IF ~FromFormatIsValid(task["startDateISO"], task["startTime"], MigrationZone(task))
    THEN [acc EXCEPT !.errors = Append(@, id)]
    ELSE AddToBatch(acc, id, ToISO(FromFormatTS(task["startDateISO"], task["startTime"],
                                                MigrationZone(task), tsNow)))

(* One turn of the for loop over snapshot.docs, on the document of id. *)
MigrateStep(acc, id, task, tsNow) ==
    IF Truthy(task, "startTimestampUTC")
    THEN [acc EXCEPT !.skipped = @ + 1]
    ELSE IF ~Truthy(task, "startDateISO") \/ ~Truthy(task, "startTime")
    THEN [acc EXCEPT !.skipped = @ + 1]
    ELSE IF ~FromFormatIsValid(task["startDateISO"], task["startTime"], MigrationZone(task))
    THEN [acc EXCEPT !.errors = Append(@, id)]
    ELSE AddToBatch(acc, id, ToISO(FromFormatTS(task["startDateISO"], task["startTime"],
                                                MigrationZone(task), tsNow)))

(* The for loop over the first n documents of the snapshot. *)
MigrateLoop(snapshot, n, tsNow) ==
    LET loop[k \in 0..Len(DocIdSeq)] ==
            IF k = 0 THEN MigrationStart
            ELSE IF DocIdSeq[k] \in DOMAIN snapshot
                 THEN MigrateStep(loop[k - 1], DocIdSeq[k], snapshot[DocIdSeq[k]], tsNow)
                 ELSE loop[k - 1]
    IN  loop[n]

(* The end of the run as it would be without the commit of the remaining   *)
(* operations.                                                             *)
CommitRemainingLeftOut(acc) ==
    [migrated |-> acc.migrated, skipped |-> acc.skipped, errors |-> acc.errors,
     batches  |-> acc.batches]

(* if (batchCount > 0) batches.push(currentBatch.commit()): the counters   *)
(* and every batch whose commit() has been called.                         *)
CommitRemaining(acc) ==
    [migrated |-> acc.migrated, skipped |-> acc.skipped, errors |-> acc.errors,
     batches  |-> IF acc.batchCount > 0
                  THEN Append(acc.batches, acc.currentBatch)
                  ELSE acc.batches]

(* The loop and the commit of the remaining operations. *)
MigrateRun(snapshot, tsNow) ==
    CommitRemaining(MigrateLoop(snapshot, Len(DocIdSeq), tsNow))

(* A committed batch at the server: every update of it, at once. *)
ApplyBatch(docs, batch) ==
    [i \in DOMAIN docs |->
        IF i \in DOMAIN batch THEN Merge(docs[i], batch[i]) ELSE docs[i]]

RemoveAt(seq, i) == SubSeq(seq, 1, i - 1) \o SubSeq(seq, i + 1, Len(seq))

-----------------------------------------------------------------------------
(* shouldNotifyNow (functions/checkNotify.js)                              *)

(* parseInt(taskData.notify, 10): a notify value is << >> when it spells   *)
(* no number and <<n>> when it spells n.                                   *)
ParseIntNotify(taskData) ==
    IF Has(taskData, "notify") THEN taskData["notify"] ELSE Empty

StrField(obj, k) == IF Has(obj, k) THEN obj[k] ELSE Empty

(* shouldNotifyNow as it was before the fix: the cached local date and    *)
(* time are read in the zone of the server, the instant is not used.       *)
shouldNotifyNowLocalFields(taskData, tsNow) ==
    LET date   == StrField(taskData, "startDateISO")
        time   == StrField(taskData, "startTime")
        notify == ParseIntNotify(taskData)
    IN  IF ~FromFormatIsValid(date, time, Undefined) THEN FALSE
        ELSE IF notify = Empty THEN FALSE
        ELSE HasSameMinute(tsNow, FromFormatTS(date, time, Undefined, tsNow)
                                    - notify[1] * 60)

(* shouldNotifyNow as it would be if the fallback read a date without a    *)
(* time as the start of that day.                                          *)
shouldNotifyNowDateOnlyIsMidnight(taskData, tsNow) ==
    LET useUTC == Truthy(taskData, "startTimestampUTC")
        date   == StrField(taskData, "startDateISO")
        time   == IF Truthy(taskData, "startTime") THEN taskData["startTime"]
                  ELSE <<0, 0>>
        valid  == IF useUTC THEN FromISOIsValid(taskData["startTimestampUTC"])
                  ELSE FromFormatIsValid(date, time, ZoneField(taskData))
        taskTS == IF useUTC THEN FromISOTS(taskData["startTimestampUTC"])
                  ELSE FromFormatTS(date, time, ZoneField(taskData), tsNow)
        notify == ParseIntNotify(taskData)
    IN  IF ~valid THEN FALSE
        ELSE IF notify = Empty THEN FALSE
        ELSE HasSameMinute(tsNow, taskTS - notify[1] * 60)

shouldNotifyNow(taskData, tsNow) ==
    LET useUTC == Truthy(taskData, "startTimestampUTC")
        date   == StrField(taskData, "startDateISO")
        time   == StrField(taskData, "startTime")
        valid  == IF useUTC THEN FromISOIsValid(taskData["startTimestampUTC"])
                  ELSE FromFormatIsValid(date, time, ZoneField(taskData))
        taskTS == IF useUTC THEN FromISOTS(taskData["startTimestampUTC"])
                  ELSE FromFormatTS(date, time, ZoneField(taskData), tsNow)
        notify == ParseIntNotify(taskData)
    IN  IF ~valid THEN FALSE
        ELSE IF notify = Empty THEN FALSE
        ELSE IF notify[1] = 0 THEN HasSameMinute(tsNow, taskTS)
        ELSE HasSameMinute(tsNow, taskTS - notify[1] * 60)

-----------------------------------------------------------------------------
(* Inputs.                                                                 *)

(* Clock readings: in US standard time before the daylight period of 2025, *)
(* inside it, and after it; none on a minute boundary.                     *)
ClockValues ==
    {ObjToLocalTS(2025, 2, 1, 12, 0, 10),
     ObjToLocalTS(2025, 7, 1, 12, 0, 10),
     ObjToLocalTS(2025, 12, 1, 12, 0, 30)}

SystemZones == {Tokyo, LosAngeles}

(* The objects Task.create is called with. *)
CreateInputs ==
    {[startDateISO |-> d, startTime |-> t] :
        d \in {Empty, <<2025, 10, 3>>}, t \in {Empty, <<14, 30>>}}
    \cup {[startDateISO |-> <<2025, 3, 9>>, startTime |-> <<2, 30>>,
           timeZone |-> NewYork]}
    \cup {[startTimestampUTC |-> <<2025, 10, 3, 18, 30, 0>>, timeZone |-> NewYork]}

(* The keyValueChanges Task.update is called with: an edit of one field,  *)
(* a time edit that also sets the zone (handleChanges with updateTimeZone),*)
(* a programmatic write of the instant, and an edit of another field.      *)
UpdateInputs ==
    {[startDateISO |-> d] :
        d \in {Empty, <<2025, 3, 9>>, <<2025, 11, 2>>, <<2025, 10>>}}
    \cup {[startTime |-> t] : t \in {Empty, <<1, 30>>, <<2, 30>>, <<25, 0>>}}
    \cup {[timeZone |-> z] : z \in {NewYork, Tokyo, BadZone}}
    \cup {[startTime |-> <<14, 30>>, timeZone |-> systemZone]}
    \cup {[startTimestampUTC |-> u] : u \in {Empty, <<2025, 3, 9, 7, 30, 0>>}}
    \cup {[duration |-> 45]}

-----------------------------------------------------------------------------
(* The task store: Task.create, Task.update and the snapshot listener.     *)

TaskCreate(id, newTaskObj) ==
    /\ id \notin DOMAIN store
    /\ ~SchemaThrows(newTaskObj)
    /\ store' = [i \in DOMAIN store \cup {id} |->
                    IF i = id THEN CreatedTask(newTaskObj, now) ELSE store[i]]
    /\ UNCHANGED <<tasksCache, lastWrite, mig, call, now, systemZone>>

(* Task.update: a keyValueChanges that fails the schema is caught and      *)
(* nothing is written; otherwise the batch holds one update of the         *)
(* document by validatedChanges and is committed.                          *)
TaskUpdate(id, kvc) ==
    /\ id \in DOMAIN tasksCache
    /\ id \in DOMAIN store
    /\ lastWrite.n < MaxUpdates
    /\ IF SchemaThrows(kvc)
       THEN /\ lastWrite' = [op |-> "rejected", n |-> lastWrite.n + 1, id |-> id,
                             kvc |-> kvc, fresh |-> tasksCache[id] = store[id]]
            /\ store' = store
       ELSE LET changes == ValidatedChanges(kvc, tasksCache[id], now)
            IN  /\ store' = [store EXCEPT ![id] = Merge(@, changes)]
                /\ lastWrite' = [op |-> "update", n |-> lastWrite.n + 1, id |-> id,
                                 kvc |-> kvc, changes |-> changes,
                                 fresh |-> tasksCache[id] = store[id]]
    /\ UNCHANGED <<tasksCache, mig, call, now, systemZone>>

(* The snapshot listener delivers the documents to tasksCache. *)
SnapshotListener ==
    /\ tasksCache # store
    /\ tasksCache' = store
    /\ UNCHANGED <<store, lastWrite, mig, call, now, systemZone>>

(* Time passes. *)
Tick ==
    /\ \E t \in ClockValues : t > now /\ now' = t
    /\ UNCHANGED <<store, tasksCache, lastWrite, mig, call, systemZone>>

Init ==
    /\ store = NoDocs
    /\ tasksCache = NoDocs
    /\ lastWrite = NoWrite
    /\ mig = MigIdle
    /\ call = NoCall
    /\ now \in ClockValues
    /\ systemZone = Tokyo

Next ==
    \/ \E id \in TaskIds, obj \in CreateInputs : TaskCreate(id, obj)
    \/ \E id \in TaskIds, kvc \in UpdateInputs : TaskUpdate(id, kvc)
    \/ SnapshotListener
    \/ Tick

Spec == Init /\ [][Next]_vars

-----------------------------------------------------------------------------
(* Properties of the task store.                                           *)

(* The instant of the wall-clock moment of a record, resolved at tsNow;   *)
(* '' for a moment that lacks its date or its time.                        *)
RecomputedInstant(rec, tsNow) ==
    IF StrField(rec, "startDateISO") # Empty /\ StrField(rec, "startTime") # Empty
    THEN toUTCTimestamp(rec["startDateISO"], rec["startTime"], ZoneField(rec), tsNow)
    ELSE Empty

(* I1 on one document: the cached fields are the projection of the instant *)
I1(doc) ==
    Truthy(doc, "startTimestampUTC") =>
        LET p == fromUTCTimestamp(doc["startTimestampUTC"], ZoneField(doc))
        IN  /\ StrField(doc, "startDateISO") = p.dateISO
            /\ StrField(doc, "startTime") = p.time

(* The step is a call of Task.update. *)
IsUpdateCall == lastWrite'.n = lastWrite.n + 1

(* The step is a call of Task.update that passed the schema and wrote. *)
IsUpdateWrite == IsUpdateCall /\ lastWrite'.op = "update"

(* C1: after any sequence of Task.create and Task.update, every stored     *)
(* task that has an instant has startDateISO and startTime equal to the    *)
(* projection of the instant into its timeZone (invariant I1).             *)
C1_StoredTasksSatisfyI1 == \A id \in DOMAIN store : I1(store[id])

(* C4: a Task.update that edits startDateISO, startTime or timeZone puts   *)
(* the recomputed startTimestampUTC into the same write as the edited      *)
(* field, and the stored scheduling fields never change but by one such    *)
(* write applied whole.                                                    *)
C4_InstantInTheSameWrite ==
    [][ /\ (IsUpdateWrite /\ NeedsTimestampUpdate(lastWrite'.kvc)) =>
              LET id == lastWrite'.id
              IN  /\ Has(lastWrite'.changes, "startTimestampUTC")
                  /\ lastWrite'.changes["startTimestampUTC"] =
                        RecomputedInstant(Merge(tasksCache[id], lastWrite'.kvc), now)
                  /\ store' = [store EXCEPT ![id] = Merge(@, lastWrite'.changes)]
        /\ \A id \in DOMAIN store :
              (\E k \in {"startDateISO", "startTime", "timeZone"} :
                    store'[id][k] # store[id][k]) =>
                 /\ IsUpdateWrite
                 /\ lastWrite'.id = id
                 /\ Has(lastWrite'.changes, "startTimestampUTC")
                 /\ store'[id] = Merge(store[id], lastWrite'.changes)
      ]_vars

(* A state after a time edit that wrote a recomputed instant. *)
C4_Witness ==
    /\ lastWrite.op = "update"
    /\ lastWrite.kvc = [startTime |-> <<1, 30>>]
    /\ store[lastWrite.id]["startTime"] = <<1, 30>>
    /\ store[lastWrite.id]["startTimestampUTC"] # Empty

(* The edit clears startDateISO or startTime. *)
ClearsDateOrTime(kvc) ==
    \/ Has(kvc, "startDateISO") /\ kvc["startDateISO"] = Empty
    \/ Has(kvc, "startTime") /\ kvc["startTime"] = Empty

(* C6: a Task.update that clears startDateISO or startTime clears          *)
(* startTimestampUTC in the same write and leaves every field it was not   *)
(* given unchanged; and whenever the moment Task.update read and edited    *)
(* lacks its date or its time, the task has no instant after the update.   *)
C6_IncompleteMomentClearsInstant ==
    [][ IsUpdateWrite =>
          LET id  == lastWrite'.id
              kvc == lastWrite'.kvc
              m   == Merge(tasksCache[id], kvc)
          IN  /\ ClearsDateOrTime(kvc) =>
                    /\ store'[id]["startTimestampUTC"] = Empty
                    /\ DOMAIN store'[id] = DOMAIN store[id]
                    /\ \A k \in DOMAIN store[id] \ (DOMAIN kvc \cup {"startTimestampUTC"}) :
                          store'[id][k] = store[id][k]
              /\ (/\ NeedsTimestampUpdate(kvc)
                  /\ (m["startDateISO"] = Empty \/ m["startTime"] = Empty)) =>
                    store'[id]["startTimestampUTC"] = Empty
      ]_vars

(* A state right after the time of a scheduled task was cleared: the cache *)
(* still shows the task as it was read, with its time and its instant.     *)
C6_Witness ==
    /\ lastWrite.op = "update"
    /\ lastWrite.n = 1
    /\ lastWrite.kvc = [startTime |-> Empty]
    /\ lastWrite.id \in DOMAIN tasksCache
    /\ tasksCache[lastWrite.id]["startTime"] # Empty
    /\ tasksCache[lastWrite.id]["startTimestampUTC"] # Empty
    /\ store[lastWrite.id]["startDateISO"] = tasksCache[lastWrite.id]["startDateISO"]
    /\ store[lastWrite.id]["startDateISO"] # Empty
    /\ store[lastWrite.id]["startTime"] = Empty
    /\ store[lastWrite.id]["startTimestampUTC"] = Empty

(* C7: applying Task.update a second time with the same keyValueChanges,   *)
(* to the record the first application left, changes nothing (both calls   *)
(* read the stored record: the cache had caught up with the store).        *)
C7_ReapplyingAnEditChangesNothing ==
    [][ (/\ IsUpdateWrite
         /\ lastWrite.op = "update"
         /\ lastWrite.fresh
         /\ lastWrite'.id = lastWrite.id
         /\ lastWrite'.kvc = lastWrite.kvc
         /\ tasksCache = store) =>
            store' = store
      ]_vars

(* C8: a Task.update whose timeZone is not a recognized identifier is      *)
(* rejected and leaves the stored record unchanged.                        *)
C8_InvalidTimeZoneRejected ==
    [][ (/\ IsUpdateCall
         /\ Has(lastWrite'.kvc, "timeZone")
         /\ ~IsValidZone(lastWrite'.kvc["timeZone"])) =>
            /\ lastWrite'.op = "rejected"
            /\ store' = store
      ]_vars

(* Exactly one of startDateISO and startTime is set. *)
ExactlyOneOfDateTime(rec) ==
    (StrField(rec, "startDateISO") = Empty) # (StrField(rec, "startTime") = Empty)

(* C9: toUTCTimestamp with exactly one of date and time returns '' and     *)
(* the write goes through with startTimestampUTC empty: Task.update        *)
(* persists the edited fields, Task.create stores the task.                *)
C9_PartialMomentWritesNoInstant ==
    [][ /\ (/\ IsUpdateCall
            /\ ~SchemaThrows(lastWrite'.kvc)
            /\ NeedsTimestampUpdate(lastWrite'.kvc)
            /\ ExactlyOneOfDateTime(Merge(tasksCache[lastWrite'.id], lastWrite'.kvc))) =>
              LET id == lastWrite'.id
                  m  == Merge(tasksCache[id], lastWrite'.kvc)
              IN  /\ toUTCTimestamp(m["startDateISO"], m["startTime"],
                                    ZoneField(m), now) = Empty
                  /\ lastWrite'.op = "update"
                  /\ store'[id]["startTimestampUTC"] = Empty
                  /\ \A k \in DOMAIN lastWrite'.kvc : store'[id][k] = lastWrite'.kvc[k]
        /\ \A id \in DOMAIN store' \ DOMAIN store :
              ExactlyOneOfDateTime(store'[id]) =>
                 /\ store'[id]["startTimestampUTC"] = Empty
                 /\ toUTCTimestamp(store'[id]["startDateISO"], store'[id]["startTime"],
                                   ZoneField(store'[id]), now) = Empty
      ]_vars

(* A state after a date was given to a task that has no time: the edit is  *)
(* stored and the task has no instant.                                     *)
C9_Witness ==
    /\ lastWrite.op = "update"
    /\ lastWrite.n = 1
    /\ lastWrite.kvc = [startDateISO |-> <<2025, 11, 2>>]
    /\ store[lastWrite.id]["startDateISO"] = <<2025, 11, 2>>
    /\ store[lastWrite.id]["startTime"] = Empty
    /\ store[lastWrite.id]["startTimestampUTC"] = Empty

-----------------------------------------------------------------------------
(* The notification check: shouldNotifyNow on a task document, at the      *)
(* times the poller runs.                                                  *)

(* The documents the poller finds: with and without an instant, with and  *)
(* without cached fields, in several zones, with and without a lead.       *)
NotifyTasks ==
    {[startTimestampUTC |-> u, startDateISO |-> dt[1], startTime |-> dt[2],
      timeZone |-> z, notify |-> nf] :
        u  \in {Empty, <<2025, 10, 3, 18, 30, 0>>, <<2025, 10, 3, 18, 30, 45>>},
        dt \in {<<Empty, Empty>>, <<<<2025, 10, 3>>, <<14, 30>>>>,
                <<<<2025, 10, 3>>, Empty>>, <<Empty, <<14, 30>>>>},
        z  \in {NewYork, Tokyo, BadZone},
        nf \in {Empty, <<0>>, <<15>>}}
    \cup {[startDateISO |-> <<2025, 10, 3>>, startTime |-> <<14, 30>>, notify |-> nf] :
            nf \in {Empty, <<15>>}}

(* The times of the polls, in order. *)
PollTimes ==
    {ObjToLocalTS(2025, 10, 3, 4, 0, 20),
     ObjToLocalTS(2025, 10, 3, 5, 15, 0),
     ObjToLocalTS(2025, 10, 3, 14, 15, 0),
     ObjToLocalTS(2025, 10, 3, 18, 14, 59),
     ObjToLocalTS(2025, 10, 3, 18, 15, 0),
     ObjToLocalTS(2025, 10, 3, 18, 15, 59),
     ObjToLocalTS(2025, 10, 3, 18, 16, 0),
     ObjToLocalTS(2025, 10, 3, 18, 30, 20)}

(* The poller evaluates shouldNotifyNow on the task at the current time. *)
Poll ==
    /\ call.pc \in {"task", "polled"}
    /\ \E t \in PollTimes :
          /\ (call.pc = "polled" => t > now)
          /\ now' = t
          /\ call' = [pc |-> "polled", task |-> call.task,
                      result |-> shouldNotifyNow(call.task, t)]
    /\ UNCHANGED <<store, tasksCache, lastWrite, mig, systemZone>>

InitNotify ==
    /\ store = NoDocs
    /\ tasksCache = NoDocs
    /\ lastWrite = NoWrite
    /\ mig = MigIdle
    /\ call \in {[pc |-> "task", task |-> t] : t \in NotifyTasks}
    /\ now = ObjToLocalTS(2025, 10, 3, 0, 0, 0)
    /\ systemZone \in SystemZones \cup {UTCZone}

NextNotify == Poll

SpecNotify == InitNotify /\ [][NextNotify]_vars

(* The lead of a task whose notify spells a number. *)
Lead(task) == ParseIntNotify(task)[1]

(* C2: for a task with an instant and a numeric lead, shouldNotifyNow is   *)
(* true exactly when now and instant - lead fall into the same UTC minute: *)
(* whatever the task's timeZone, its cached fields and the zone of the     *)
(* server.  For the instant 2025-10-03T18:30Z and a lead of 15 it is true  *)
(* at 18:15Z and false at 14:15Z.                                          *)
C2_FiresInTheMinuteOfInstantMinusLead ==
    (/\ call.pc = "polled"
     /\ Truthy(call.task, "startTimestampUTC")
     /\ ParseIntNotify(call.task) # Empty) =>
        LET target == FromISOTS(call.task["startTimestampUTC"]) - Lead(call.task) * 60
        IN  /\ call.result = (now \div 60 = target \div 60)
            /\ \A z \in KnownZones \cup {BadZone} :
                  shouldNotifyNow(Merge(call.task, [timeZone |-> z]), now) = call.result
            /\ (/\ call.task["startTimestampUTC"] = <<2025, 10, 3, 18, 30, 0>>
                /\ Lead(call.task) = 15) =>
                  /\ now = ObjToLocalTS(2025, 10, 3, 18, 15, 0) => call.result
                  /\ now = ObjToLocalTS(2025, 10, 3, 14, 15, 0) => ~call.result

(* A poll at 18:15:59Z that fires for a New York task of 18:30Z with a     *)
(* lead of 15, on a server in another zone.                                *)
C2_Witness ==
    /\ call.pc = "polled"
    /\ call.task = [startTimestampUTC |-> <<2025, 10, 3, 18, 30, 0>>,
                    startDateISO |-> <<2025, 10, 3>>, startTime |-> <<14, 30>>,
                    timeZone |-> NewYork, notify |-> <<15>>]
    /\ now = ObjToLocalTS(2025, 10, 3, 18, 15, 59)
    /\ systemZone = Tokyo
    /\ call.result

-----------------------------------------------------------------------------
(* The two conversions on their own: toUTCTimestamp on a local date, time  *)
(* and zone, then fromUTCTimestamp on its result.                          *)

ConvDates == {<<2024, 2, 29>>, <<2025, 1, 1>>, <<2025, 3, 9>>, <<2025, 10, 3>>,
              <<2025, 11, 2>>, <<2025, 12, 31>>, <<2025, 2, 30>>, Empty}

ConvTimes == {<<0, 0>>, <<0, 10>>, <<1, 30>>, <<2, 30>>, <<3, 0>>, <<14, 30>>, <<23, 59>>,
              <<24, 0>>, <<25, 0>>, Empty}

ConvZones == KnownZones \cup {BadZone}

(* toUTCTimestamp(date, time, timeZone) *)
Forward ==
    /\ call.pc = "input"
    /\ call' = [pc |-> "forward", dateISO |-> call.dateISO, time |-> call.time,
                timeZone |-> call.timeZone,
                utc |-> toUTCTimestamp(call.dateISO, call.time, call.timeZone, now)]
    /\ UNCHANGED <<store, tasksCache, lastWrite, mig, now, systemZone>>

(* fromUTCTimestamp(utc, timeZone) on the result of Forward *)
Backward ==
    /\ call.pc = "forward"
    /\ call' = [pc |-> "back", dateISO |-> call.dateISO, time |-> call.time,
                timeZone |-> call.timeZone, utc |-> call.utc,
                back |-> fromUTCTimestamp(call.utc, call.timeZone)]
    /\ UNCHANGED <<store, tasksCache, lastWrite, mig, now, systemZone>>

InitConv ==
    /\ store = NoDocs
    /\ tasksCache = NoDocs
    /\ lastWrite = NoWrite
    /\ mig = MigIdle
    /\ call \in {[pc |-> "input", dateISO |-> d, time |-> t, timeZone |-> z] :
                    d \in ConvDates, t \in ConvTimes, z \in ConvZones}
    /\ now \in ClockValues
    /\ systemZone = Tokyo

NextConv == Forward \/ Backward

SpecConv == InitConv /\ [][NextConv]_vars

(* The UTC offsets a zone uses in the modelled years. *)
OffsetsOf(zone) == {ZoneOffset(zone, t) : t \in ClockValues}

(* The instants whose wall clock in the zone reads the local time localTS. *)
InstantsAt(localTS, zone) ==
    {u \in {localTS - o * 60 : o \in OffsetsOf(zone)} :
        u + ZoneOffset(zone, u) * 60 = localTS}

(* A date of the calendar, a time from 00:00 to 23:59 and a known zone,    *)
(* naming a wall-clock reading that happens exactly once (neither skipped  *)
(* nor repeated by a DST transition).                                      *)
ValidOutsideTransitions(date, time, zone) ==
    /\ ParsesAsDate(date)
    /\ Len(time) = 2 /\ time[1] \in 0..23 /\ time[2] \in 0..59
    /\ IsValidZone(zone)
    /\ Cardinality(InstantsAt(ObjToLocalTS(date[1], date[2], date[3],
                                           time[1], time[2], 0), zone)) = 1

(* C5: for a valid date, time and zone outside DST gaps and overlaps,      *)
(* fromUTCTimestamp(toUTCTimestamp(date, time, tz), tz) is (date, time).   *)
C5_RoundTripOutsideTransitions ==
    (/\ call.pc = "back"
     /\ ValidOutsideTransitions(call.dateISO, call.time, call.timeZone)) =>
        call.back = [dateISO |-> call.dateISO, time |-> call.time]

(* A round trip on the day of a DST change, outside the repeated hour,     *)
(* whose instant falls on another UTC date than the local date.            *)
C5_Witness ==
    /\ call.pc = "back"
    /\ call.dateISO = <<2025, 11, 2>>
    /\ call.time = <<23, 59>>
    /\ call.timeZone = LosAngeles
    /\ ValidOutsideTransitions(call.dateISO, call.time, call.timeZone)
    /\ call.utc = <<2025, 11, 3, 7, 59, 0>>
    /\ call.back = [dateISO |-> <<2025, 11, 2>>, time |-> <<23, 59>>]

(* The local timestamp of a date and a time of the calendar. *)
LocalTSOf(date, time) == ObjToLocalTS(date[1], date[2], date[3], time[1], time[2], 0)

(* A valid date, time and zone. *)
ValidMoment(date, time, zone) ==
    /\ ParsesAsDate(date)
    /\ Len(time) = 2 /\ time[1] \in 0..23 /\ time[2] \in 0..59
    /\ IsValidZone(zone)

(* toUTCTimestamp has been called on the input. *)
Resolved == call.pc \in {"forward", "back"}

(* The smallest and the largest element of a non-empty set of integers. *)
Least(S) == CHOOSE x \in S : \A y \in S : x <= y
Greatest(S) == CHOOSE x \in S : \A y \in S : x >= y

(* C11: a wall-clock time that occurs twice resolves to the same instant   *)
(* whenever the call is made, and that instant is its first occurrence.    *)
C11_OverlapResolvesToFirstOccurrence ==
    (/\ Resolved
     /\ ValidMoment(call.dateISO, call.time, call.timeZone)
     /\ Cardinality(InstantsAt(LocalTSOf(call.dateISO, call.time), call.timeZone)) = 2) =>
        /\ call.utc = ToISO(Least(InstantsAt(LocalTSOf(call.dateISO, call.time),
                                             call.timeZone)))
        /\ \A t \in ClockValues :
              toUTCTimestamp(call.dateISO, call.time, call.timeZone, t) = call.utc

(* C12: a wall-clock time that a DST change skips resolves, without an     *)
(* error, to the instant of that reading taken with the offset of before   *)
(* the change (the time shifted forward by the size of the gap), whenever  *)
(* the call is made; 2025-03-09 02:30 New York is 07:30Z and 03:00, just   *)
(* after the gap, is 07:00Z.                                               *)
C12_GapShiftsForward ==
    /\ (/\ Resolved
        /\ ValidMoment(call.dateISO, call.time, call.timeZone)
        /\ InstantsAt(LocalTSOf(call.dateISO, call.time), call.timeZone) = {}) =>
           call.utc = ToISO(LocalTSOf(call.dateISO, call.time)
                              - Least(OffsetsOf(call.timeZone)) * 60)
    /\ (/\ Resolved
        /\ call.dateISO = <<2025, 3, 9>>
        /\ call.timeZone = NewYork) =>
           /\ call.time = <<2, 30>> => call.utc = <<2025, 3, 9, 7, 30, 0>>
           /\ call.time = <<3, 0>>  => call.utc = <<2025, 3, 9, 7, 0, 0>>

(* 02:30 of the spring-forward day in New York, resolved while New York is *)
(* on standard time, and projected back: it reads 03:30.                   *)
C12_Witness ==
    /\ call.pc = "back"
    /\ call.dateISO = <<2025, 3, 9>> /\ call.time = <<2, 30>> /\ call.timeZone = NewYork
    /\ ZoneOffset(NewYork, now) = -300
    /\ call.utc = <<2025, 3, 9, 7, 30, 0>>
    /\ call.back.time = <<3, 30>>

(* C13: a wall-clock time outside the transitions resolves to the one      *)
(* instant that reads as it in the zone (local minus the offset in effect  *)
(* then), on the UTC date that instant falls on; 2025-10-03 14:30 is       *)
(* 18:30Z in New York and 05:30Z in Tokyo.                                 *)
C13_LocalMinusOffset ==
    /\ (/\ Resolved
        /\ ValidOutsideTransitions(call.dateISO, call.time, call.timeZone)) =>
           /\ FromISOIsValid(call.utc)
           /\ FromISOTS(call.utc) \in InstantsAt(LocalTSOf(call.dateISO, call.time),
                                                 call.timeZone)
           /\ FromISOTS(call.utc) = LocalTSOf(call.dateISO, call.time)
                                      - ZoneOffset(call.timeZone, FromISOTS(call.utc)) * 60
    /\ (/\ Resolved
        /\ call.dateISO = <<2025, 10, 3>> /\ call.time = <<14, 30>>) =>
           /\ call.timeZone = NewYork => call.utc = <<2025, 10, 3, 18, 30, 0>>
           /\ call.timeZone = Tokyo   => call.utc = <<2025, 10, 3, 5, 30, 0>>

(* The last minute of the year in Los Angeles, resolved in summer: the     *)
(* instant is on the next UTC date, in the next year.                      *)
C13_Witness ==
    /\ call.pc = "forward"
    /\ call.dateISO = <<2025, 12, 31>> /\ call.time = <<23, 59>>
    /\ call.timeZone = LosAngeles
    /\ ZoneOffset(LosAngeles, now) = -420
    /\ call.utc = <<2026, 1, 1, 7, 59, 0>>

-----------------------------------------------------------------------------
(* The backfill: migrateTasksToUTC on the tasks of a user, while the user  *)
(* edits a task.                                                           *)

(* The documents of before the instant was stored, and one that has it.    *)
LegacyDocs ==
    {[startDateISO |-> <<2025, 10, 3>>, startTime |-> t, timeZone |-> z, duration |-> 30] :
        t \in {<<14, 30>>, <<9, 0>>, <<25, 0>>, Empty}, z \in {NewYork, Tokyo}}
    \cup {[startDateISO |-> <<2025, 10, 3>>, startTime |-> <<14, 30>>,
           timeZone |-> NewYork, duration |-> 30,
           startTimestampUTC |-> <<2025, 10, 3, 18, 30, 0>>]}

(* The edits of the user while the backfill runs. *)
BackfillEdits ==
    {[startTime |-> <<16, 0>>], [startTime |-> Empty],
     [startDateISO |-> <<2025, 10, 4>>], [timeZone |-> Tokyo], [duration |-> 45]}

(* const snapshot = await getDocs(tasksRef): the documents as the server   *)
(* holds them when it answers.                                             *)
MigrateGetDocs ==
    /\ mig.pc = "idle"
    /\ mig' = [pc |-> "loop", snapshot |-> store]
    /\ UNCHANGED <<store, tasksCache, lastWrite, call, now, systemZone>>

(* The for loop over snapshot.docs and the commit() calls: no await in it, *)
(* the batches are on their way to the server when it ends.                *)
MigrateForLoop ==
    /\ mig.pc = "loop"
    /\ mig' = [pc |-> "commit", run |-> MigrateRun(mig.snapshot, now)]
    /\ UNCHANGED <<store, tasksCache, lastWrite, call, now, systemZone>>

(* The server applies one of the committed batches. *)
MigrateBatchCommitted ==
    /\ mig.pc = "commit"
    /\ \E i \in 1..Len(mig.run.batches) :
          /\ store' = ApplyBatch(store, mig.run.batches[i])
          /\ mig' = [mig EXCEPT !.run.batches = RemoveAt(@, i)]
    /\ UNCHANGED <<tasksCache, lastWrite, call, now, systemZone>>

(* await Promise.all(batches) is over: the migration returns its counters. *)
MigrateReturn ==
    /\ mig.pc = "commit"
    /\ mig.run.batches = << >>
    /\ mig' = [pc |-> "done",
               result |-> [migrated |-> mig.run.migrated, skipped |-> mig.run.skipped,
                           errors |-> mig.run.errors]]
    /\ UNCHANGED <<store, tasksCache, lastWrite, call, now, systemZone>>

InitBackfill ==
    /\ store \in {[i \in TaskIds |-> d] : d \in LegacyDocs}
    /\ tasksCache = store
    /\ lastWrite = NoWrite
    /\ mig = MigIdle
    /\ call = NoCall
    /\ now \in ClockValues
    /\ systemZone = Tokyo

NextBackfill ==
    \/ MigrateGetDocs
    \/ MigrateForLoop
    \/ MigrateBatchCommitted
    \/ MigrateReturn
    \/ \E id \in TaskIds, kvc \in BackfillEdits : TaskUpdate(id, kvc)
    \/ SnapshotListener
    \/ Tick

SpecBackfill == InitBackfill /\ [][NextBackfill]_vars

(* C10: when a backfill pass and one live Task.update on the same task     *)
(* are both over, in whatever order their writes reached the store, the    *)
(* stored startTimestampUTC is the instant of the stored startDateISO,     *)
(* startTime and timeZone.                                                 *)
C10_BackfillAndLiveEditLeaveI1 ==
    (/\ mig.pc = "done"
     /\ lastWrite.n = 1
     /\ lastWrite.op = "update") =>
        \A id \in DOMAIN store :
            /\ I1(store[id])
            /\ StrField(store[id], "startTimestampUTC")
                  = RecomputedInstant(store[id], now)

-----------------------------------------------------------------------------
(* instantiateTask: the task of one occurrence of a recurring template.    *)

(* JavaScript null: what toISO() returns on an invalid DateTime. *)
Null == <<-1>>

DefaultTemplateTime == <<9, 0>>

(* template.startTime || '09:00' *)
TemplateTime(template) ==
    IF Truthy(template, "startTime") THEN template["startTime"] ELSE DefaultTemplateTime

(* DateTime.fromJSDate(occurrence).toFormat('yyyy-MM-dd'): the date of the *)
(* occurrence in the zone of the system.                                   *)
OccurrenceDate(occurrence) == FormatDate(occurrence, systemZone)

instantiateTask(template, occurrence, tsNow) ==
    Merge(SchemaParse(template),
          [templateID |-> template["id"],
           startDateISO |-> OccurrenceDate(occurrence),
           startTime |-> TemplateTime(template),
           timeZone |-> ZoneField(template),
           startTimestampUTC |->
               IF FromFormatIsValid(OccurrenceDate(occurrence), TemplateTime(template),
                                    ZoneField(template))
               THEN ToISO(FromFormatTS(OccurrenceDate(occurrence), TemplateTime(template),
                                       ZoneField(template), tsNow))
               ELSE Null,
           persistsOnList |-> FALSE])

(* The recurring templates: with and without a time of day and a zone. *)
Templates ==
    {[id |-> "tpl", startTime |-> t, timeZone |-> z, duration |-> 30] :
        t \in {<<14, 30>>, <<2, 30>>, <<0, 10>>, <<25, 0>>, Empty},
        z \in {NewYork, Tokyo, BadZone}}
    \cup {[id |-> "tpl", startTime |-> <<14, 30>>, duration |-> 30],
          [id |-> "tpl", timeZone |-> NewYork, duration |-> 30]}

(* The occurrences: the start of a day, and noon, in the zone of the       *)
(* system.                                                                 *)
OccurrencesIn(zone) ==
    {FixOffset(LocalTSOf(d, t), ZoneOffset(zone, LocalTSOf(d, t)), zone) :
        d \in {<<2025, 3, 9>>, <<2025, 10, 3>>, <<2025, 11, 2>>, <<2025, 12, 31>>},
        t \in {<<0, 0>>, <<12, 0>>}}

(* instantiateTask({ template, occurrence }) *)
Instantiate ==
    /\ call.pc = "template"
    /\ ~SchemaThrows(call.template)
    /\ call' = [pc |-> "instance", template |-> call.template,
                occurrence |-> call.occurrence,
                instance |-> instantiateTask(call.template, call.occurrence, now)]
    /\ UNCHANGED <<store, tasksCache, lastWrite, mig, now, systemZone>>

InitInstantiate ==
    /\ store = NoDocs
    /\ tasksCache = NoDocs
    /\ lastWrite = NoWrite
    /\ mig = MigIdle
    /\ systemZone \in SystemZones
    /\ call \in {[pc |-> "template", template |-> tpl, occurrence |-> occ] :
                    tpl \in Templates, occ \in OccurrencesIn(systemZone)}
    /\ now \in ClockValues

NextInstantiate == Instantiate

SpecInstantiate == InitInstantiate /\ [][NextInstantiate]_vars

(* C14: the instance of a template that has a time of day has the          *)
(* template's timeZone, the template's startTime, the date of the          *)
(* occurrence, the instant toUTCTimestamp gives for these three, and       *)
(* satisfies I1.                                                           *)
C14_InstanceInheritsAndSatisfiesI1 ==
    (/\ call.pc = "instance"
     /\ Truthy(call.template, "startTime")
     /\ FromFormatIsValid(call.instance["startDateISO"], call.template["startTime"],
                          ZoneField(call.template))) =>
        /\ call.instance["timeZone"] = ZoneField(call.template)
        /\ call.instance["startTime"] = call.template["startTime"]
        /\ call.instance["startDateISO"] = OccurrenceDate(call.occurrence)
        /\ call.instance["startTimestampUTC"]
              = toUTCTimestamp(call.instance["startDateISO"], call.instance["startTime"],
                               call.instance["timeZone"], now)
        /\ I1(call.instance)

-----------------------------------------------------------------------------
(* The migration on its own: migrateTasksToUTC over the tasks of a user,   *)
(* run from the settings page, and run again.                              *)

(* The documents of the collection before the migration: legacy tasks      *)
(* with and without a zone, drafts, tasks that have their instant, and     *)
(* tasks whose date and time do not resolve.                               *)
MigrationDocs ==
    {[startDateISO |-> <<2025, 10, 3>>, startTime |-> <<14, 30>>, timeZone |-> NewYork],
     [startDateISO |-> <<2025, 3, 9>>, startTime |-> <<2, 30>>, timeZone |-> NewYork],
     [startDateISO |-> <<2025, 10, 3>>, startTime |-> <<14, 30>>],
     [startDateISO |-> <<2025, 10, 3>>, startTime |-> <<0, 10>>, timeZone |-> ""],
     [startDateISO |-> <<2025, 10, 3>>, startTime |-> Empty, timeZone |-> Tokyo],
     [startDateISO |-> Empty, startTime |-> Empty, startTimestampUTC |-> Empty,
      timeZone |-> NewYork],
     [startDateISO |-> <<2025, 10, 3>>, startTime |-> <<14, 30>>, timeZone |-> Tokyo,
      startTimestampUTC |-> <<2025, 10, 3, 5, 30, 0>>],
     [startDateISO |-> <<2025, 10, 3>>, startTime |-> <<25, 0>>, timeZone |-> NewYork],
     [startDateISO |-> <<2025, 10, 3>>, startTime |-> <<14, 30>>, timeZone |-> BadZone]}

(* handleMigrate once more, after a run that returned: the second run      *)
(* starts on the documents the first one left.                             *)
MigrateAgain ==
    /\ mig.pc = "done"
    /\ call.pc = "run1"
    /\ mig' = MigIdle
    /\ call' = [pc |-> "run2", before |-> store, first |-> mig.result]
    /\ UNCHANGED <<store, tasksCache, lastWrite, now, systemZone>>

InitMigration ==
    /\ store \in [DocIds -> MigrationDocs]
    /\ tasksCache = NoDocs
    /\ lastWrite = NoWrite
    /\ mig = MigIdle
    /\ call = [pc |-> "run1", before |-> store]
    /\ now \in ClockValues
    /\ systemZone = Tokyo

NextMigration ==
    \/ MigrateGetDocs
    \/ MigrateForLoop
    \/ MigrateBatchCommitted
    \/ MigrateReturn
    \/ MigrateAgain

SpecMigration == InitMigration /\ [][NextMigration]_vars

(* The for loop of the run is over: its counters are known. *)
LoopIsOver == mig.pc \in {"commit", "done"}

(* The counters of the run. *)
Counters == IF mig.pc = "commit" THEN mig.run ELSE mig.result

(* The document has a date and a time. *)
HasMoment(doc) == Truthy(doc, "startDateISO") /\ Truthy(doc, "startTime")

(* The zone the backfill is documented to read a document in. *)
ZoneOrDefault(doc) ==
    IF Has(doc, "timeZone") /\ doc["timeZone"] # "" THEN doc["timeZone"] ELSE LosAngeles

(* The date and the time of the document name a moment in its zone. *)
Resolves(doc) ==
    /\ ParsesAsDate(doc["startDateISO"])
    /\ ParsesAsTime(doc["startTime"])
    /\ IsValidZone(ZoneOrDefault(doc))

(* The documents the run found without an instant and with a date and a    *)
(* time.                                                                   *)
ToMigrate ==
    {id \in DOMAIN call.before :
        HasMoment(call.before[id]) /\ ~Truthy(call.before[id], "startTimestampUTC")}

(* C15: every document of the snapshot is counted once, as migrated, as    *)
(* skipped or as an entry of errors; a document with a date and a time     *)
(* that do not resolve is in errors, is not counted as migrated and gets   *)
(* no startTimestampUTC.                                                   *)
C15_EveryDocumentAccountedOnce ==
    LoopIsOver =>
        /\ Counters.migrated + Counters.skipped + Len(Counters.errors)
              = Cardinality(DOMAIN call.before)
        /\ \A i, j \in 1..Len(Counters.errors) :
              i # j => Counters.errors[i] # Counters.errors[j]
        /\ Counters.migrated
              = Cardinality({id \in ToMigrate : Resolves(call.before[id])})
        /\ Counters.skipped = Cardinality(DOMAIN call.before \ ToMigrate)
        /\ \A id \in ToMigrate :
              ~Resolves(call.before[id]) =>
                 /\ \E i \in 1..Len(Counters.errors) : Counters.errors[i] = id
                 /\ StrField(store[id], "startTimestampUTC") = Empty
                 /\ mig.pc = "commit" =>
                       \A k \in 1..Len(mig.run.batches) : id \notin DOMAIN mig.run.batches[k]

(* A first run that returned one document migrated, one skipped and one    *)
(* reported.                                                               *)
C15_Witness ==
    /\ mig.pc = "done"
    /\ call.pc = "run1"
    /\ mig.result.migrated = 1
    /\ mig.result.skipped = 1
    /\ mig.result.errors = <<"t3">>
    /\ Truthy(store["t1"], "startTimestampUTC")
    /\ ~Truthy(store["t3"], "startTimestampUTC")

(* C16: after a run that returned with no errors, every task with a date   *)
(* and a time has a startTimestampUTC, the instant of its date and time in *)
(* its timeZone (in America/Los_Angeles when it has none), and every task  *)
(* without a date or without a time has none.                              *)
C16_BackfillPostcondition ==
    (/\ mig.pc = "done"
     /\ call.pc = "run1"
     /\ mig.result.errors = << >>) =>
        \A id \in DOMAIN store :
            IF HasMoment(store[id])
            THEN /\ Truthy(store[id], "startTimestampUTC")
                 /\ store[id]["startTimestampUTC"]
                       = toUTCTimestamp(store[id]["startDateISO"], store[id]["startTime"],
                                        ZoneOrDefault(store[id]), now)
            ELSE StrField(store[id], "startTimestampUTC") = Empty

(* A run without errors over a task without a zone, a task with a zone     *)
(* and a draft: 14:30 has become 21:30Z, read in Los Angeles.              *)
C16_Witness ==
    /\ mig.pc = "done"
    /\ call.pc = "run1"
    /\ mig.result = [migrated |-> 2, skipped |-> 1, errors |-> << >>]
    /\ ~Has(store["t1"], "timeZone")
    /\ StrField(store["t1"], "startTimestampUTC") = <<2025, 10, 3, 21, 30, 0>>
    /\ ZoneField(store["t2"]) = NewYork
    /\ StrField(store["t2"], "startTimestampUTC") = <<2025, 10, 3, 18, 30, 0>>
    /\ ~HasMoment(store["t3"]) /\ StrField(store["t3"], "startTimestampUTC") = Empty

(* C17: a second run over the documents a first run left migrates          *)
(* nothing, commits no batch and leaves every document as it was.          *)
C17_SecondRunWritesNothing ==
    (call.pc = "run2" /\ LoopIsOver) =>
        /\ Counters.migrated = 0
        /\ mig.pc = "commit" => mig.run.batches = << >>
        /\ store = call.before

(* A second run that returned, after a first run that migrated the three   *)
(* documents.                                                              *)
C17_Witness ==
    /\ call.pc = "run2"
    /\ mig.pc = "done"
    /\ call.first.migrated = 3
    /\ mig.result = [migrated |-> 0, skipped |-> 3, errors |-> << >>]

-----------------------------------------------------------------------------
(* Error tracking: sendErrorEmail and the wrappers around a handler, in    *)
(* the client (src/lib/utils/errorTracking.js) and in the Cloud Functions  *)
(* (functions/errorTracking.js).                                           *)

ClientWithErrorTracking == "client.withErrorTracking"
ClientSendErrorEmail    == "client.sendErrorEmail"
FnWithErrorTracking     == "functions.withErrorTracking"
FnOnSchedule            == "functions.onScheduleWithTracking"
FnOnRequest             == "functions.onRequestWithTracking"
FnSendErrorEmail        == "functions.sendErrorEmail"

(* The entry points: the four wrappers, and sendErrorEmail called by       *)
(* itself (handleError, the global listeners, trackComponentError).        *)
Wrappers == {ClientWithErrorTracking, FnWithErrorTracking, FnOnSchedule, FnOnRequest}
EntryPoints == Wrappers \cup {ClientSendErrorEmail, FnSendErrorEmail}

IsClient(entry) == entry \in {ClientWithErrorTracking, ClientSendErrorEmail}

(* What a handler throws, or what sendErrorEmail is given: an Error, an    *)
(* Error without a stack, a string, an object whose message is a number,   *)
(* null.                                                                   *)
ErrorValues == {"Error", "ErrorWithoutStack", "string", "numberMessage", "null"}

(* The context: an object JSON.stringify renders, or a circular one. *)
Contexts == {"plain", "circular"}

(* The context a caller passes can be either; the one the Cloud Functions *)
(* wrappers build themselves is made of strings.                           *)
ContextsOf(entry) ==
    IF entry \in {FnWithErrorTracking, FnOnSchedule, FnOnRequest}
    THEN {"plain"} ELSE Contexts

(* Building errorDetails, the subject and the body throws: error.message   *)
(* of null, message.substring of a number, JSON.stringify of a circular    *)
(* context.                                                                *)
FormatThrows(error, context) ==
    error \in {"null", "numberMessage"} \/ context = "circular"

(* What the transport does: sendEmail resolves or rejects; fetch resolves  *)
(* with an OK response, with a response that is not OK whose text can or   *)
(* cannot be read, or rejects.                                             *)
SendEmailOutcomes == {"resolves", "rejects"}
FetchOutcomes == {"ok", "notOk", "notOkTextFails", "rejects"}

TrackingIdle(entry, handler, context, available) ==
    [pc |-> "start", entry |-> entry, handler |-> handler, context |-> context,
     sendEmailAvailable |-> available, error |-> "none", attempts |-> << >>,
     transport |-> "none", log |-> << >>, email |-> "none",
     responded |-> FALSE, outcome |-> [kind |-> "none"]]

(* return await handler(...args), when the handler returns *)
HandlerReturns ==
    /\ call.pc = "start"
    /\ call.entry \in Wrappers
    /\ call.handler = "returns"
    /\ call' = [call EXCEPT !.pc = "done", !.outcome = [kind |-> "returns"]]
    /\ UNCHANGED <<store, tasksCache, lastWrite, mig, now, systemZone>>

(* catch (error): the wrapper logs the error and calls sendErrorEmail *)
HandlerThrows ==
    /\ call.pc = "start"
    /\ call.entry \in Wrappers
    /\ call.handler # "returns"
    /\ call' = [call EXCEPT !.pc = "format", !.error = call.handler,
                            !.log = Append(@, "Tracked error")]
    /\ UNCHANGED <<store, tasksCache, lastWrite, mig, now, systemZone>>

(* sendErrorEmail(error, context) called by itself *)
SendErrorEmailCalled ==
    /\ call.pc = "start"
    /\ call.entry \notin Wrappers
    /\ call.handler # "returns"
    /\ call' = [call EXCEPT !.pc = "format", !.error = call.handler]
    /\ UNCHANGED <<store, tasksCache, lastWrite, mig, now, systemZone>>

(* The first part of the try block of sendErrorEmail: errorDetails,        *)
(* emailSubject, emailBody.                                                *)
EmailFormat ==
    /\ call.pc = "format"
    /\ call' = [call EXCEPT !.pc = IF FormatThrows(call.error, call.context)
                                    THEN "catch" ELSE "send"]
    /\ UNCHANGED <<store, tasksCache, lastWrite, mig, now, systemZone>>

(* The client transport as it would be if a sendEmail that rejects were    *)
(* followed by the POST.                                                   *)
EmailSendClientWithFallback ==
    /\ call.pc = "send"
    /\ IsClient(call.entry)
    /\ IF call.sendEmailAvailable
       THEN \E r \in SendEmailOutcomes :
               call' = [call EXCEPT
                          !.attempts = IF r = "rejects"
                                       THEN @ \o <<"sendEmail", "fetch">>
                                       ELSE Append(@, "sendEmail"),
                          !.transport = r,
                          !.pc = "settled", !.email = "resolved"]
       ELSE call' = [call EXCEPT !.attempts = Append(@, "fetch"),
                                 !.pc = "settled", !.email = "resolved"]
    /\ UNCHANGED <<store, tasksCache, lastWrite, mig, now, systemZone>>

(* The client transport: sendEmail when typeof sendEmail === 'function',   *)
(* else one fetch of /api/send-error-email; a response that is not OK is   *)
(* logged with its text.                                                   *)
EmailSendClient ==
    /\ call.pc = "send"
    /\ IsClient(call.entry)
    /\ IF call.sendEmailAvailable
       THEN \E r \in SendEmailOutcomes :
               call' = [call EXCEPT
                          !.attempts = Append(@, "sendEmail"),
                          !.transport = r,
                          !.pc = IF r = "resolves" THEN "settled" ELSE "catch",
                          !.email = IF r = "resolves" THEN "resolved" ELSE @]
       ELSE \E r \in FetchOutcomes :
               call' = [call EXCEPT
                          !.attempts = Append(@, "fetch"),
                          !.transport = r,
                          !.log = IF r = "notOk"
                                  THEN Append(@, "Failed to send error email")
                                  ELSE @,
                          !.pc = IF r \in {"ok", "notOk"} THEN "settled" ELSE "catch",
                          !.email = IF r \in {"ok", "notOk"} THEN "resolved" ELSE @]
    /\ UNCHANGED <<store, tasksCache, lastWrite, mig, now, systemZone>>

(* The Cloud Functions version has no transport yet: it logs the email. *)
EmailSendFunctions ==
    /\ call.pc = "send"
    /\ ~IsClient(call.entry)
    /\ call' = [call EXCEPT !.log = Append(@, "ERROR EMAIL WOULD BE SENT"),
                            !.pc = "settled", !.email = "resolved"]
    /\ UNCHANGED <<store, tasksCache, lastWrite, mig, now, systemZone>>

(* sendErrorEmail as it would be without its catch: what the try block     *)
(* threw rejects the call.                                                 *)
EmailCatchRethrows ==
    /\ call.pc = "catch"
    /\ call' = [call EXCEPT !.pc = "settled", !.email = "rejected"]
    /\ UNCHANGED <<store, tasksCache, lastWrite, mig, now, systemZone>>

(* catch (emailError): the failure is logged and sendErrorEmail resolves *)
EmailCatch ==
    /\ call.pc = "catch"
    /\ call' = [call EXCEPT
                  !.log = Append(@, "Failed to send error notification email"),
                  !.pc = "settled", !.email = "resolved"]
    /\ UNCHANGED <<store, tasksCache, lastWrite, mig, now, systemZone>>

(* The wrappers as they would be if the scheduled one swallowed the error. *)
OutcomeAfterEmailScheduleSwallows(entry, error, email, responded) ==
    IF email = "rejected" THEN [kind |-> "throws", error |-> "emailError"]
    ELSE IF entry \in {ClientWithErrorTracking, FnWithErrorTracking}
    THEN [kind |-> "throws", error |-> error]
    ELSE IF entry = FnOnRequest
    THEN (IF responded THEN [kind |-> "throws", error |-> "ERR_HTTP_HEADERS_SENT"]
          ELSE [kind |-> "responds", status |-> 500])
    ELSE [kind |-> "resolves"]

(* What the entry point does once await sendErrorEmail is over.           *)
(* response.status(500).json(...) on a response the handler has already    *)
(* sent throws (Express: ERR_HTTP_HEADERS_SENT), and nothing catches it.    *)
OutcomeAfterEmail(entry, error, email, responded) ==
    IF email = "rejected" THEN [kind |-> "throws", error |-> "emailError"]
    ELSE IF entry \in {ClientWithErrorTracking, FnWithErrorTracking, FnOnSchedule}
    THEN [kind |-> "throws", error |-> error]
    ELSE IF entry = FnOnRequest
    THEN (IF responded THEN [kind |-> "throws", error |-> "ERR_HTTP_HEADERS_SENT"]
          ELSE [kind |-> "responds", status |-> 500])
    ELSE [kind |-> "resolves"]

(* throw error in withErrorTracking and onScheduleWithTracking,            *)
(* response.status(500).json(...) in onRequestWithTracking, the return of  *)
(* sendErrorEmail to its caller.                                           *)
AfterEmail ==
    /\ call.pc = "settled"
    /\ call' = [call EXCEPT !.pc = "done",
                            !.outcome = OutcomeAfterEmail(call.entry, call.error, call.email,
                                                          call.responded)]
    /\ UNCHANGED <<store, tasksCache, lastWrite, mig, now, systemZone>>

InitTracking ==
    /\ store = NoDocs
    /\ tasksCache = NoDocs
    /\ lastWrite = NoWrite
    /\ mig = MigIdle
    /\ \E e \in EntryPoints :
          call \in {[TrackingIdle(e, h, c, a) EXCEPT !.responded = r] :
                      h \in IF e \in Wrappers THEN ErrorValues \cup {"returns"}
                                              ELSE ErrorValues,
                      c \in ContextsOf(e), a \in BOOLEAN,
                      r \in IF e = FnOnRequest THEN BOOLEAN ELSE {FALSE}}
    /\ now = ObjToLocalTS(2025, 10, 3, 0, 0, 0)
    /\ systemZone = Tokyo

NextTracking ==
    \/ HandlerReturns
    \/ HandlerThrows
    \/ SendErrorEmailCalled
    \/ EmailFormat
    \/ EmailSendClient
    \/ EmailSendFunctions
    \/ EmailCatch
    \/ AfterEmail

SpecTracking == InitTracking /\ [][NextTracking]_vars

(* The entry point has finished. *)
TrackingDone == call.pc = "done"

(* The log holds the line. *)
Logged(line) == \E i \in 1..Len(call.log) : call.log[i] = line

(* The handler of a wrapper threw. *)
HandlerThrew == call.entry \in Wrappers /\ call.handler # "returns"

EmailCallOver == call.pc \in {"settled", "done"} /\ call.error # "none"

(* The email did not go out: building it threw, or the transport failed. *)
EmailFailed ==
    \/ FormatThrows(call.error, call.context)
    \/ call.transport \in {"rejects", "notOk", "notOkTextFails"}

(* C19: sendErrorEmail resolves whatever the error, the context and the    *)
(* transport do; a failure is logged and nothing more.                     *)
C19_SendErrorEmailNeverRejects ==
    /\ call.email # "rejected"
    /\ EmailCallOver =>
          /\ call.email = "resolved"
          /\ EmailFailed =>
                \/ Logged("Failed to send error notification email")
                \/ Logged("Failed to send error email")
    /\ (TrackingDone /\ call.entry \notin Wrappers) => call.outcome = [kind |-> "resolves"]

(* The client sendErrorEmail, given an Error: the response is not OK and   *)
(* its text cannot be read; the call resolved.                             *)
C19_Witness ==
    /\ TrackingDone
    /\ call.entry = ClientSendErrorEmail
    /\ call.error = "Error"
    /\ call.transport = "notOkTextFails"
    /\ Logged("Failed to send error notification email")
    /\ call.outcome = [kind |-> "resolves"]

(* C20: a call of the client sendErrorEmail makes at most one attempt:     *)
(* sendEmail when it is available, else one POST; never both, and nothing  *)
(* after a failure.                                                        *)
C20_OneAttemptThroughOneTransport ==
    IsClient(call.entry) =>
        /\ Len(call.attempts) <= 1
        /\ EmailCallOver =>
              call.attempts = IF FormatThrows(call.error, call.context) THEN << >>
                              ELSE IF call.sendEmailAvailable THEN <<"sendEmail">>
                              ELSE <<"fetch">>

(* A sendEmail that rejected, and no POST after it. *)
C20_Witness ==
    /\ TrackingDone
    /\ IsClient(call.entry)
    /\ call.sendEmailAvailable
    /\ call.transport = "rejects"
    /\ call.attempts = <<"sendEmail">>

(***************************************************************************)
(* The SvelteKit handleError hooks (hooks.client.js, hooks.server.js),     *)
(* run twice on the same event and at the same clock with two different    *)
(* errors.                                                                 *)
(***************************************************************************)
ClientHook == "hooks.client.handleError"
ServerHook == "hooks.server.handleError"
Hooks == {ClientHook, ServerHook}

ClientHookMessage == "An unexpected error occurred. Please try refreshing the page."
ServerHookMessage == "An unexpected error occurred. The development team has been notified."

(* error instanceof Error ? error : new Error(String(error)) *)
ErrorObjOf(error) ==
    IF error \in {"Error", "ErrorWithoutStack"} THEN error ELSE "Error"

(* n.toString(36), as the sequence of its digits *)
RECURSIVE ToString36(_)
ToString36(n) ==
    IF n < 36 THEN <<n>> ELSE Append(ToString36(n \div 36), n % 36)

(* The object a hook would return if it passed the error's message on. *)
SanitizedErrorWithMessage(hook, errorObj, tsNow) ==
    IF hook = ClientHook
    THEN [message |-> errorObj]
    ELSE [message |-> errorObj, errorId |-> ToString36(tsNow)]

(* The object the hook returns: a fixed message and, on the server, an id  *)
(* made of the clock.                                                      *)
SanitizedError(hook, errorObj, tsNow) ==
    IF hook = ClientHook
    THEN [message |-> ClientHookMessage]
    ELSE [message |-> ServerHookMessage, errorId |-> ToString36(tsNow)]

NotReturned == [message |-> "none"]

HookIdle(hook, error, other, available) ==
    Merge(TrackingIdle(ClientSendErrorEmail, error, "plain", available),
          [hook |-> hook, run |-> 1, other |-> other,
           returned |-> NotReturned, first |-> NotReturned])

(* handleError({error, event}): errorObj, then sendErrorEmail is called *)
HandleErrorCalled ==
    /\ call.pc = "start"
    /\ call' = [call EXCEPT !.pc = "format", !.error = ErrorObjOf(call.handler)]
    /\ UNCHANGED <<store, tasksCache, lastWrite, mig, now, systemZone>>

(* await sendErrorEmail(...) is over: the hook returns *)
HandleErrorReturns ==
    /\ call.pc = "settled"
    /\ call' = [call EXCEPT !.pc = "done",
                            !.returned = SanitizedError(call.hook, call.error, now)]
    /\ UNCHANGED <<store, tasksCache, lastWrite, mig, now, systemZone>>

(* The same hook is run on the other error. *)
HandleErrorAgain ==
    /\ call.pc = "done"
    /\ call.run = 1
    /\ call' = Merge(HookIdle(call.hook, call.other, call.handler, call.sendEmailAvailable),
                     [run |-> 2, first |-> call.returned])
    /\ UNCHANGED <<store, tasksCache, lastWrite, mig, now, systemZone>>

InitHooks ==
    /\ store = NoDocs
    /\ tasksCache = NoDocs
    /\ lastWrite = NoWrite
    /\ mig = MigIdle
    /\ \E e1 \in ErrorValues : \E e2 \in ErrorValues \ {e1} :
          call \in {HookIdle(h, e1, e2, a) : h \in Hooks, a \in BOOLEAN}
    /\ now \in ClockValues
    /\ systemZone = Tokyo

NextHooks ==
    \/ HandleErrorCalled
    \/ EmailFormat
    \/ EmailSendClient
    \/ EmailCatch
    \/ HandleErrorReturns
    \/ HandleErrorAgain

SpecHooks == InitHooks /\ [][NextHooks]_vars

(* The fields of the returned object that come from the error: none. *)
FixedMessage(hook) == IF hook = ClientHook THEN ClientHookMessage ELSE ServerHookMessage

(* C21: the object a handleError hook returns does not depend on the       *)
(* error: run on two different errors it returns the same object, with the *)
(* hook's fixed message, and it returns only once sendErrorEmail has       *)
(* settled, delivered or not.                                              *)
C21_SanitizedErrorIndependentOfError ==
    /\ call.returned # NotReturned =>
          /\ call.pc = "done"
          /\ call.email = "resolved"
          /\ call.returned.message = FixedMessage(call.hook)
          /\ call.hook = ClientHook => DOMAIN call.returned = {"message"}
          /\ call.hook = ServerHook =>
                /\ DOMAIN call.returned = {"message", "errorId"}
                /\ call.returned.errorId = ToString36(now)
    /\ (call.pc = "done" /\ call.run = 2) => call.returned = call.first

(* The server hook has answered a string thrown as it answered an Error,   *)
(* and the second email was not delivered.                                 *)
C21_Witness ==
    /\ call.pc = "done"
    /\ call.run = 2
    /\ call.hook = ServerHook
    /\ call.other = "Error"
    /\ call.handler = "string"
    /\ call.transport = "rejects"
    /\ call.returned = call.first
    /\ call.returned.message = ServerHookMessage

(***************************************************************************)
(* The scheduled function (schedule '* * * * *'): shouldNotifyNow is       *)
(* evaluated on a task once in every UTC minute of a window, at some       *)
(* second of that minute.                                                  *)
(***************************************************************************)
PollWindowStart == ObjToLocalTS(2025, 10, 3, 18, 10, 0)

PollWindowMinutes == 26

PollSeconds == {0, 30, 59}

(* One run of the scheduled function. *)
PollMinute ==
    /\ call.pc = "polling"
    /\ call.minute < PollWindowMinutes
    /\ \E sec \in PollSeconds :
          LET t == PollWindowStart + call.minute * 60 + sec
          IN  /\ now' = t
              /\ call' = [call EXCEPT
                            !.minute = @ + 1,
                            !.fired = IF shouldNotifyNow(call.task, t)
                                      THEN Append(@, t \div 60) ELSE @]
    /\ UNCHANGED <<store, tasksCache, lastWrite, mig, systemZone>>

InitPoller ==
    /\ store = NoDocs
    /\ tasksCache = NoDocs
    /\ lastWrite = NoWrite
    /\ mig = MigIdle
    /\ call \in {[pc |-> "polling", task |-> t, minute |-> 0, fired |-> << >>] :
                    t \in NotifyTasks}
    /\ now = PollWindowStart - 1
    /\ systemZone = Tokyo

NextPoller == PollMinute

SpecPoller == InitPoller /\ [][NextPoller]_vars

(* The UTC minute in which the task is due: that of instant - lead. *)
DueMinute(task) == (FromISOTS(task["startTimestampUTC"]) - Lead(task) * 60) \div 60

(* The minute has been polled. *)
Polled(m) ==
    /\ PollWindowStart \div 60 <= m
    /\ m < PollWindowStart \div 60 + call.minute

(* C22: polled once in every UTC minute, a task with an instant and a      *)
(* numeric lead fires in exactly one poll, that of the minute of           *)
(* instant - lead, and in no other; a task whose notify spells no number   *)
(* never fires.                                                            *)
C22_FiresExactlyOnce ==
    /\ (Truthy(call.task, "startTimestampUTC") /\ ParseIntNotify(call.task) # Empty) =>
          call.fired = IF Polled(DueMinute(call.task))
                       THEN <<DueMinute(call.task)>> ELSE << >>
    /\ ParseIntNotify(call.task) = Empty => call.fired = << >>

(* The whole window was polled and a task of 18:30:45Z with a lead of 15   *)
(* fired once, in the minute of 18:15Z.                                    *)
C22_Witness ==
    /\ call.minute = PollWindowMinutes
    /\ StrField(call.task, "startTimestampUTC") = <<2025, 10, 3, 18, 30, 45>>
    /\ ParseIntNotify(call.task) = <<15>>
    /\ call.fired = <<ObjToLocalTS(2025, 10, 3, 18, 15, 0) \div 60>>

(***************************************************************************)
(* Task.update called again before the snapshot of the previous write has  *)
(* reached tasksCache.                                                     *)
(***************************************************************************)

(* The call edits the date alone or the time alone. *)
EditsDateOrTimeAlone(kvc) == DOMAIN kvc \in {{"startDateISO"}, {"startTime"}}

(* C23: after two calls of Task.update in a row on one task, one editing   *)
(* startDateISO and the other startTime, the stored startTimestampUTC is   *)
(* the instant of the stored startDateISO, startTime and timeZone, also    *)
(* when tasksCache does not yet hold the write of the first call.          *)
C23_BackToBackUpdatesLeaveTheInstantOfTheStoredFields ==
    [][ (/\ lastWrite.op = "update"
         /\ EditsDateOrTimeAlone(lastWrite.kvc)
         /\ IsUpdateWrite
         /\ EditsDateOrTimeAlone(lastWrite'.kvc)
         /\ DOMAIN lastWrite'.kvc # DOMAIN lastWrite.kvc
         /\ lastWrite'.id = lastWrite.id) =>
            LET id == lastWrite'.id
            IN  StrField(store'[id], "startTimestampUTC") = RecomputedInstant(store'[id], now)
      ]_vars

(***************************************************************************)
(* migrateTasksToUTC on collections large enough to fill a write batch:    *)
(* the for loop one turn at a time, the documents numbered in the order    *)
(* of snapshot.docs.                                                       *)
(***************************************************************************)
MaxBatchDocs == 1001

LegacyDoc == [startDateISO |-> <<2025, 10, 3>>, startTime |-> <<14, 30>>, timeZone |-> NewYork]

(* The i-th document of a collection: all legacy, or legacy documents      *)
(* without a zone among migrated ones, unresolvable ones and drafts.       *)
BatchDocAt(kind, i) ==
    IF kind = "legacy" THEN LegacyDoc
    ELSE IF i % 7 = 0
    THEN [startDateISO |-> <<2025, 10, 3>>, startTime |-> <<14, 30>>, timeZone |-> Tokyo,
          startTimestampUTC |-> <<2025, 10, 3, 5, 30, 0>>]
    ELSE IF i % 11 = 0
    THEN [startDateISO |-> <<2025, 10, 3>>, startTime |-> <<25, 0>>, timeZone |-> NewYork]
    ELSE IF i % 13 = 0
    THEN [startDateISO |-> <<2025, 10, 3>>, startTime |-> Empty, timeZone |-> Tokyo]
    ELSE [startDateISO |-> <<2025, 10, 3>>, startTime |-> <<14, 30>>]

BatchCollections ==
    {[i \in 1..n |-> BatchDocAt(kind, i)] :
        n \in {BatchLimit - 1, BatchLimit, MaxBatchDocs}, kind \in {"legacy", "mixed"}}

(* await getDocs(tasksRef), and the locals before the loop *)
MigrateGetDocsOfCollection ==
    /\ mig.pc = "idle"
    /\ mig' = [pc |-> "turn", snapshot |-> store, k |-> 0, acc |-> MigrationStart]
    /\ UNCHANGED <<store, tasksCache, lastWrite, call, now, systemZone>>

(* One turn of the for loop. *)
MigrateTurn ==
    /\ mig.pc = "turn"
    /\ mig.k < Len(mig.snapshot)
    /\ mig' = [mig EXCEPT !.k = @ + 1,
                          !.acc = MigrateStep(@, mig.k + 1, mig.snapshot[mig.k + 1], now)]
    /\ UNCHANGED <<store, tasksCache, lastWrite, call, now, systemZone>>

(* The loop is over: the remaining operations are committed.  The sets of  *)
(* documents of the batches whose commit() was called are kept.            *)
MigrateLoopEnds ==
    /\ mig.pc = "turn"
    /\ mig.k = Len(mig.snapshot)
    /\ mig' = [pc |-> "commit", run |-> CommitRemaining(mig.acc)]
    /\ call' = [call EXCEPT !.sent = [b \in 1..Len(mig'.run.batches) |->
                                          DOMAIN mig'.run.batches[b]]]
    /\ UNCHANGED <<store, tasksCache, lastWrite, now, systemZone>>

InitBatching ==
    /\ store \in BatchCollections
    /\ tasksCache = NoDocs
    /\ lastWrite = NoWrite
    /\ mig = MigIdle
    /\ call = [pc |-> "batching", before |-> store, sent |-> << >>]
    /\ now = ObjToLocalTS(2025, 7, 1, 12, 0, 10)
    /\ systemZone = Tokyo

NextBatching ==
    \/ MigrateGetDocsOfCollection
    \/ MigrateTurn
    \/ MigrateLoopEnds
    \/ MigrateBatchCommitted
    \/ MigrateReturn

SpecBatching == InitBatching /\ [][NextBatching]_vars

(* The documents of the batches whose commit() was called. *)
SentDocs == UNION {call.sent[b] : b \in 1..Len(call.sent)}

(* C24: no write batch ever holds more than 500 operations; every task     *)
(* counted as migrated has its update in exactly one batch whose commit()  *)
(* was called, the last, partial one included; and the function returns    *)
(* only when every one of these commits has been applied.                  *)
C24_BatchesWithinLimitEachMigratedOnceAllCommitted ==
    /\ mig.pc = "turn" =>
          /\ Cardinality(DOMAIN mig.acc.currentBatch) = mig.acc.batchCount
          /\ mig.acc.batchCount < BatchLimit
          /\ \A b \in 1..Len(mig.acc.batches) :
                Cardinality(DOMAIN mig.acc.batches[b]) = BatchLimit
    /\ LoopIsOver =>
          /\ \A b \in 1..Len(call.sent) :
                /\ call.sent[b] # {}
                /\ Cardinality(call.sent[b]) <= BatchLimit
          /\ \A b, c \in 1..Len(call.sent) : b # c => call.sent[b] \cap call.sent[c] = {}
          /\ SentDocs = {id \in ToMigrate : Resolves(call.before[id])}
          /\ Cardinality(SentDocs) = Counters.migrated
    /\ mig.pc = "done" =>
          \A id \in SentDocs : Truthy(store[id], "startTimestampUTC")

(* A run over 1001 legacy documents has returned: two full batches and one *)
(* of a single update were committed.                                      *)
C24_Witness ==
    /\ mig.pc = "done"
    /\ Len(call.before) = MaxBatchDocs
    /\ mig.result.migrated = MaxBatchDocs
    /\ Len(call.sent) = 3
    /\ Cardinality(call.sent[1]) = BatchLimit
    /\ Cardinality(call.sent[3]) = MaxBatchDocs - 2 * BatchLimit

(* The step is the server applying a batch of the backfill. *)
IsBackfillWrite == mig.pc = "commit" /\ mig'.pc = "commit" /\ mig'.run # mig.run

(* C25: the backfill writes the field startTimestampUTC and nothing else:  *)
(* startDateISO, startTime, timeZone (a missing timeZone stays missing)    *)
(* and every other field of every document stay as they were, and a        *)
(* document that has its startTimestampUTC is never written.               *)
C25_BackfillWritesOnlyTheInstant ==
    [][ IsBackfillWrite =>
          /\ \A id \in DOMAIN store :
                store'[id] # store[id] =>
                   /\ ~Truthy(store[id], "startTimestampUTC")
                   /\ DOMAIN store'[id] = DOMAIN store[id] \cup {"startTimestampUTC"}
                   /\ \A k \in DOMAIN store[id] \ {"startTimestampUTC"} :
                         store'[id][k] = store[id][k]
          /\ DOMAIN store' = DOMAIN store
      ]_vars

(* The call changes the timeZone and nothing else. *)
ChangesTimeZoneOnly(kvc, doc) ==
    /\ DOMAIN kvc = {"timeZone"}
    /\ kvc["timeZone"] # ZoneField(doc)

(* C26: a Task.update that changes only timeZone leaves the stored         *)
(* startDateISO and startTime as they are and stores, as startTimestampUTC,*)
(* the instant of the stored date and time in the new zone.                *)
C26_ZoneChangeKeepsWallClockAndMovesInstant ==
    [][ (IsUpdateWrite /\ ChangesTimeZoneOnly(lastWrite'.kvc, store[lastWrite'.id])) =>
            LET id == lastWrite'.id
            IN  /\ store'[id]["timeZone"] = lastWrite'.kvc["timeZone"]
                /\ store'[id]["startDateISO"] = store[id]["startDateISO"]
                /\ store'[id]["startTime"] = store[id]["startTime"]
                /\ store'[id]["startTimestampUTC"] = RecomputedInstant(store'[id], now)
      ]_vars

(***************************************************************************)
(* The error tracking as a whole: application errors reach sendErrorEmail  *)
(* through the window listeners, the handleError hooks and                 *)
(* trackComponentError; the POST of sendErrorEmail reaches the API route.  *)
(***************************************************************************)
MaxErrors == 2

WindowError == "window.error"
UnhandledRejection == "window.unhandledrejection"
ComponentError == "trackComponentError"

(* Who catches an application error and calls sendErrorEmail. *)
Catchers == {WindowError, UnhandledRejection, ComponentError, ClientHook, ServerHook}

(* The callers that do not await sendErrorEmail: a rejection of it would   *)
(* be an unhandled rejection.                                              *)
NotAwaited == {WindowError, UnhandledRejection, ComponentError}

(* The error each caller hands to sendErrorEmail. *)
CaughtError(catcher, thrown) ==
    IF catcher = WindowError THEN (IF thrown = "null" THEN "Error" ELSE thrown)
    ELSE IF catcher = ComponentError THEN thrown
    ELSE ErrorObjOf(thrown)

(* The requests the API route can be sent: the JSON sendErrorEmail posts,  *)
(* JSON without a body field, and something that is not JSON.              *)
ApiRequests == {"posted", "noBody", "notJSON"}

(* The API route as it would be without its try/catch. *)
POSTWithoutCatch(request) ==
    IF request = "posted" THEN [status |-> 200, throws |-> FALSE]
    ELSE [status |-> 500, throws |-> TRUE]

(* POST({request}) of /api/send-error-email: whatever fails inside is      *)
(* caught and answered with status 500.                                    *)
POST(request) ==
    IF request = "posted" THEN [status |-> 200, throws |-> FALSE]
    ELSE [status |-> 500, throws |-> FALSE]

(* Between two calls of sendErrorEmail. *)
FeedbackIdle(available, invocations, errors) ==
    Merge(TrackingIdle(ClientSendErrorEmail, "none", "plain", available),
          [pc |-> "idle", catcher |-> "none", invocations |-> invocations,
           errors |-> errors, api |-> "none"])

(* sendErrorEmail(error, context) is called by the catcher. *)
Invoked(catcher, error) ==
    [call EXCEPT !.pc = "format", !.catcher = catcher, !.handler = error,
                 !.error = error, !.attempts = << >>, !.transport = "none",
                 !.email = "none", !.invocations = @ + 1]

(* The application throws, and one of the catchers calls sendErrorEmail. *)
ApplicationError ==
    /\ call.pc = "idle"
    /\ call.errors < MaxErrors
    /\ \E catcher \in Catchers, thrown \in ErrorValues :
          call' = [Invoked(catcher, CaughtError(catcher, thrown)) EXCEPT !.errors = @ + 1]
    /\ UNCHANGED <<store, tasksCache, lastWrite, mig, now, systemZone>>

(* The API route handles a request; were the handler to throw, SvelteKit   *)
(* would call the server hook with what it threw.                          *)
ApiRoutePOST ==
    /\ call.pc = "idle"
    /\ call.api = "none"
    /\ \E request \in ApiRequests :
          LET response == POST(request)
          IN  call' = IF response.throws
                      THEN [Invoked(ServerHook, "Error") EXCEPT !.api = request]
                      ELSE [call EXCEPT !.api = request]
    /\ UNCHANGED <<store, tasksCache, lastWrite, mig, now, systemZone>>

(* The call of sendErrorEmail has settled.  A rejection nobody awaits      *)
(* would be dispatched to the unhandledrejection listener.                 *)
InvocationOver ==
    /\ call.pc = "settled"
    /\ call' = IF call.email = "rejected" /\ call.catcher \in NotAwaited
               THEN Invoked(UnhandledRejection, "Error")
               ELSE [call EXCEPT !.pc = "idle", !.api = "none"]
    /\ UNCHANGED <<store, tasksCache, lastWrite, mig, now, systemZone>>

InitFeedback ==
    /\ store = NoDocs
    /\ tasksCache = NoDocs
    /\ lastWrite = NoWrite
    /\ mig = MigIdle
    /\ call \in {FeedbackIdle(a, 0, 0) : a \in BOOLEAN}
    /\ now = ObjToLocalTS(2025, 10, 3, 0, 0, 0)
    /\ systemZone = Tokyo

NextFeedback ==
    \/ ApplicationError
    \/ EmailFormat
    \/ EmailSendClient
    \/ EmailCatch
    \/ ApiRoutePOST
    \/ InvocationOver

SpecFeedback == InitFeedback /\ [][NextFeedback]_vars

(* C27: a failure of the delivery of an error email never makes another    *)
(* call of sendErrorEmail: the calls of sendErrorEmail are as many as the  *)
(* application errors caught, whatever the transport and the API route do. *)
C27_NoFeedbackLoop ==
    /\ call.invocations = call.errors
    /\ call.pc # "idle" => call.invocations > 0

(* Two application errors, the second caught by the window listener, whose *)
(* POST was rejected: two calls of sendErrorEmail, and the route has       *)
(* answered 500 to a request it could not read.                            *)
C27_Witness ==
    /\ call.pc = "settled"
    /\ call.errors = MaxErrors
    /\ call.invocations = MaxErrors
    /\ call.catcher = WindowError
    /\ call.transport = "rejects"
    /\ call.api = "notJSON"

(* C28: onRequestWithTracking, when the handler throws: the call of        *)
(* sendErrorEmail is over, then one response of status 500 is sent and     *)
(* nothing is thrown; when the handler returns: no error email and no      *)
(* response of status 500.                                                 *)
C28_OnRequestAnswers500AndSwallows ==
    (TrackingDone /\ call.entry = FnOnRequest) =>
        IF call.handler = "returns"
        THEN /\ call.email = "none"
             /\ call.outcome = [kind |-> "returns"]
        ELSE /\ call.email = "resolved"
             /\ call.outcome = [kind |-> "responds", status |-> 500]

(***************************************************************************)
(* PhotoUpload.svelte: handleFileChange on the selected files.  Each file  *)
(* is uploaded; when its upload resolves, the then callback calls          *)
(* mergeImageWithTask and returns nothing, so the promise pushed for the   *)
(* file resolves there, while the merge awaits createImageBitmap and       *)
(* getDownloadURL before it calls Task.update.                             *)
(***************************************************************************)
MaxFiles == 3

(* handleFileChange(e): one upload is started for each selected file *)
FilesSelected(n) ==
    [pc |-> "awaiting", files |-> [i \in 1..n |-> "uploading"], updates |-> << >>,
     alert |-> FALSE]

(* uploadBytes resolves: the then callback starts mergeImageWithTask, and  *)
(* the promise of the file resolves.                                       *)
UploadResolves(i) ==
    /\ call.files[i] = "uploading"
    /\ call' = [call EXCEPT !.files[i] = "merging"]
    /\ UNCHANGED <<store, tasksCache, lastWrite, mig, now, systemZone>>

(* uploadBytes rejects: the promise of the file never settles. *)
UploadRejects(i) ==
    /\ call.files[i] = "uploading"
    /\ call' = [call EXCEPT !.files[i] = "uploadFailed"]
    /\ UNCHANGED <<store, tasksCache, lastWrite, mig, now, systemZone>>

(* await Promise.all([p1, p2]) of mergeImageWithTask resolves: Task.update *)
(* is called with the image of the file.                                   *)
MergeIssuesUpdate(i) ==
    /\ call.files[i] = "merging"
    /\ call' = [call EXCEPT !.files[i] = "merged", !.updates = Append(@, i)]
    /\ UNCHANGED <<store, tasksCache, lastWrite, mig, now, systemZone>>

(* createImageBitmap or getDownloadURL rejects: mergeImageWithTask rejects *)
(* before Task.update, and nobody holds its promise.                       *)
MergeFails(i) ==
    /\ call.files[i] = "merging"
    /\ call' = [call EXCEPT !.files[i] = "mergeFailed"]
    /\ UNCHANGED <<store, tasksCache, lastWrite, mig, now, systemZone>>

(* await Promise.all(promises) resolves: every pushed promise has          *)
(* resolved; alert('Photos successfully uploaded.')                        *)
AlertUploaded ==
    /\ call.pc = "awaiting"
    /\ \A i \in DOMAIN call.files : call.files[i] \in {"merging", "merged", "mergeFailed"}
    /\ call' = [call EXCEPT !.pc = "done", !.alert = TRUE]
    /\ UNCHANGED <<store, tasksCache, lastWrite, mig, now, systemZone>>

InitPhoto ==
    /\ store = NoDocs
    /\ tasksCache = NoDocs
    /\ lastWrite = NoWrite
    /\ mig = MigIdle
    /\ call \in {FilesSelected(n) : n \in 1..MaxFiles}
    /\ now = ObjToLocalTS(2025, 10, 3, 0, 0, 0)
    /\ systemZone = Tokyo

NextPhoto ==
    \/ \E i \in DOMAIN call.files : UploadResolves(i)
    \/ \E i \in DOMAIN call.files : UploadRejects(i)
    \/ \E i \in DOMAIN call.files : MergeIssuesUpdate(i)
    \/ \E i \in DOMAIN call.files : MergeFails(i)
    \/ AlertUploaded

SpecPhoto == InitPhoto /\ [][NextPhoto]_vars

(* C29: the alert 'Photos successfully uploaded.' is shown only when every *)
(* selected file has been uploaded and its merge has called Task.update;   *)
(* never while a merge is pending or after one has failed.                 *)
C29_AlertOnlyAfterEveryMerge ==
    call.alert =>
        \A i \in DOMAIN call.files :
            /\ call.files[i] = "merged"
            /\ \E u \in 1..Len(call.updates) : call.updates[u] = i

-----------------------------------------------------------------------------
(* adjustDuration: the drag of the lower edge of a task on the calendar,   *)
(* in TaskElement and in PhotoTaskElement.                                 *)

TaskElement == "TaskElement"
PhotoTaskElement == "PhotoTaskElement"
DragComponents == {TaskElement, PhotoTaskElement}

(* The values of the pixelsPerHour store. *)
PixelsPerHour == {30, 60, 120}

(* newY - startY, in pixels: up, nowhere and down, each a distance whose   *)
(* change of duration is a whole number of minutes.                        *)
DragDistances == {-600, -60, -30, -2, 0, 2, 30, 60}

(* The durations of the tasks on the calendar that have one. *)
DragDurations == {0, 1, 30, 90}

(* !task.duration: undefined, 0 and NaN are falsy *)
NoDuration(task) ==
    ~Has(task, "duration") \/ task["duration"] = 0 \/ task["duration"] = NaN

(* a + b of JavaScript, a being undefined where the flag says so *)
Plus(undefined, a, b) == IF undefined \/ a = NaN \/ b = NaN THEN NaN ELSE a + b

(* Math.max(1, x): NaN when x is NaN *)
MathMax1(x) == IF x = NaN THEN NaN ELSE IF x > 1 THEN x ELSE 1

(* minutesPerPixel * (newY - startY) *)
DurationChange(pixelsPerHour, dy) == (60 * dy) \div pixelsPerHour

(* The duration adjustDuration hands to Task.update: PhotoTaskElement     *)
(* first sets a duration that is missing or 0 to 10, TaskElement does not. *)
NewDuration(component, task, pixelsPerHour, dy) ==
    IF component = PhotoTaskElement /\ NoDuration(task)
    THEN MathMax1(Plus(FALSE, 10, DurationChange(pixelsPerHour, dy)))
    ELSE MathMax1(Plus(~Has(task, "duration"),
                       IF Has(task, "duration") THEN task["duration"] ELSE 0,
                       DurationChange(pixelsPerHour, dy)))

(* The tasks on the calendar before the drag: one without a duration and  *)
(* one of each duration.                                                   *)
DragDocs ==
    {[startDateISO |-> <<2025, 10, 3>>, startTime |-> <<14, 30>>, timeZone |-> Tokyo]} \cup
    {[startDateISO |-> <<2025, 10, 3>>, startTime |-> <<14, 30>>, timeZone |-> Tokyo,
      duration |-> d] : d \in DragDurations}

(* adjustDuration(e, task): one Task.update of the duration alone. *)
AdjustDuration(component, id, pixelsPerHour, dy) ==
    /\ id \in DOMAIN tasksCache
    /\ TaskUpdate(id, [duration |-> NewDuration(component, tasksCache[id],
                                                pixelsPerHour, dy)])

InitDrag ==
    /\ \E doc \in DragDocs : store = ("a" :> doc)
    /\ tasksCache = store
    /\ lastWrite = NoWrite
    /\ mig = MigIdle
    /\ call = NoCall
    /\ now = ObjToLocalTS(2025, 10, 3, 0, 0, 0)
    /\ systemZone = Tokyo

NextDrag ==
    \/ \E component \in DragComponents, pixelsPerHour \in PixelsPerHour, dy \in DragDistances :
           AdjustDuration(component, "a", pixelsPerHour, dy)
    \/ SnapshotListener

SpecDrag == InitDrag /\ [][NextDrag]_vars

(* C30: every duration-adjusting drag, in TaskElement and in               *)
(* PhotoTaskElement, in any direction and over any distance, also on a     *)
(* task whose duration is missing, makes Task.update write a duration that *)
(* is a number of at least 1: never zero, negative or undefined.           *)
C30_DragWritesDurationOfAtLeastOne ==
    [][lastWrite'.n # lastWrite.n
       => /\ lastWrite'.op = "update"
          /\ Has(store'["a"], "duration")
          /\ store'["a"]["duration"] # NaN
          /\ store'["a"]["duration"] >= 1]_vars

====
